---- MODULE Spec2Model ----
(***************************************************************************)
(* The reference-counted heap arena of monty (src/src/heap.rs): slots,     *)
(* free-list reuse, refcount lifecycle, lazy hash cache and the            *)
(* take/restore borrow helpers, driven by callers that own one refcount    *)
(* unit per Ref they hold.                                                 *)
(*                                                                         *)
(* HeapIds are 0-based as in the source; TLA+ sequences are 1-based, so    *)
(* slot id lives at entries[id + 1].                                       *)
(***************************************************************************)
EXTENDS Integers, Sequences, FiniteSets, TLC

VARIABLES
    heap,    \* Heap { entries, free_list }
    roots,   \* roots[id]: Ref(id) copies held outside the heap (locals, temporaries)
    frames,  \* active with_entry_mut / call_attr / with_two invocations, innermost last
    halt,    \* "" while running, else the panic message or resource error that ended the run
    ret,     \* what the last call returned, for the calls whose result is looked at
    peak,    \* highest number of simultaneously live entries so far
    writer,  \* the embedder's PrintWriter, kept from one run to the next
    run      \* the embedder's runs of a program: which run this is and what it has done

\* What the heap's callers leave alone.
io == <<writer, run>>
vars == <<heap, roots, frames, halt, ret, peak, writer, run>>

(* ------------------------------ bounds -------------------------------- *)

\* Most slots the arena grows to under Spec; SpecRefs, whose payloads are
\* lists only, lets it grow one slot further.
MaxSlots == 2
\* Longest List/Tuple/Dict payload.
MaxItems == 2
\* Longest Str/Bytes payload.
MaxStrLen == 1
\* Highest refcount a caller raises an entry to by cloning a Ref.
MaxRefcount == 2
\* Deepest nesting of borrow helpers (a callback calling a helper again).
MaxDepth == 1
\* Most repetitions of `v += y` in one loop.
MaxRepeat == 3
\* Most iterables handed to one map call.
MaxIterables == 3
\* Most runs an embedder starts with one writer.
MaxRuns == 2
\* The writer calls after which a program prints no more.
MaxWrites == 3
\* Most positional arguments of one print call.
MaxPrintArgs == 2
\* Most statements of one program.
MaxStatements == 3
\* Most arguments of one exception.
MaxExcArgs == 3
\* Deepest chain of stack frames under a raise.
MaxFrames == 3
\* Statements of a prepared program.
MaxNodes == 2
\* Input names passed to prepare.
MaxInputs == 3

Max(a, b) == IF a >= b THEN a ELSE b

\* The ids callers try: every slot either specification can hold.
Ids == 0 .. MaxSlots

(* ------------------------------ values -------------------------------- *)

\* Value::Ref(id) and the immediate Value::None.
Ref(id) == [tag |-> "Ref", id |-> id]
NoneValue == [tag |-> "None", id |-> 0]
IsRef(v) == v.tag = "Ref"

\* HeapData variants. A payload is a record so that all variants compare.
Str(b) == [kind |-> "Str", bytes |-> b, items |-> <<>>]
Bytes(b) == [kind |-> "Bytes", bytes |-> b, items |-> <<>>]
List(v) == [kind |-> "List", bytes |-> <<>>, items |-> v]
Tuple(v) == [kind |-> "Tuple", bytes |-> <<>>, items |-> v]
Dict(v) == [kind |-> "Dict", bytes |-> <<>>, items |-> v]
\* HeapValue.data = None: the payload is out of the slot.
Taken == [kind |-> "Taken", bytes |-> <<>>, items |-> <<>>]

\* enum HashState
Unknown == [tag |-> "Unknown", hash |-> 0]
Cached(h) == [tag |-> "Cached", hash |-> h]
Unhashable == [tag |-> "Unhashable", hash |-> 0]

\* for_data leaving every variant to the first get_or_compute_hash.
for_data_always_unknown(data) == Unknown

\* HashState::for_data
for_data(data) ==
    IF data.kind \in {"Str", "Bytes", "Tuple"} THEN Unknown ELSE Unhashable

\* entries[id] = None
NoneSlot == [some |-> FALSE, refcount |-> 0, data |-> Taken, hash_state |-> Unknown]
HeapValue(rc, data, hs) == [some |-> TRUE, refcount |-> rc, data |-> data, hash_state |-> hs]

\* Heap::new
new == [entries |-> <<>>, free_list |-> <<>>]

(* --------------------------- slot lookup ------------------------------ *)

\* entries.get(id): None when id is out of range.
InRange(h, id) == id >= 0 /\ id < Len(h.entries)
slot(h, id) == h.entries[id + 1]
IsSome(h, id) == InRange(h, id) /\ slot(h, id).some
HasData(h, id) == IsSome(h, id) /\ slot(h, id).data.kind # "Taken"

Panic(func, what) == "Heap::" \o func \o ": " \o what

\* The .expect() chain shared by inc_ref, dec_ref, get_refcount and take_data!:
\* "" when the entry exists, else the panic message.
expect_entry(h, id, func) ==
    IF ~InRange(h, id) THEN Panic(func, "slot missing")
    ELSE IF ~slot(h, id).some THEN Panic(func, "object already freed")
    ELSE ""

SetSlot(h, id, s) == [h EXCEPT !.entries[id + 1] = s]

(* ------------------------ allocate / refcounts ------------------------- *)

\* allocate handing out the oldest free id instead of the newest.
allocate_oldest_first(h, data) ==
    LET new_entry == HeapValue(1, data, for_data(data)) IN
    IF h.free_list # <<>>
    THEN LET id == h.free_list[1] IN
         [heap |-> [entries |-> [h.entries EXCEPT ![id + 1] = new_entry],
                    free_list |-> SubSeq(h.free_list, 2, Len(h.free_list))],
          id |-> id]
    ELSE [heap |-> [entries |-> Append(h.entries, new_entry),
                    free_list |-> h.free_list],
          id |-> Len(h.entries)]

\* allocate that never looks at the free list.
allocate_append_only(h, data) ==
    [heap |-> [entries |-> Append(h.entries, HeapValue(1, data, for_data(data))),
               free_list |-> h.free_list],
     id |-> Len(h.entries)]

\* Heap::allocate: [heap, id]
allocate(h, data) ==
    LET new_entry == HeapValue(1, data, for_data(data)) IN
    IF h.free_list # <<>>
    THEN LET id == h.free_list[Len(h.free_list)] IN
         [heap |-> [entries |-> [h.entries EXCEPT ![id + 1] = new_entry],
                    free_list |-> SubSeq(h.free_list, 1, Len(h.free_list) - 1)],
          id |-> id]
    ELSE [heap |-> [entries |-> Append(h.entries, new_entry),
                    free_list |-> h.free_list],
          id |-> Len(h.entries)]

\* inc_ref that checks the index only, not that the slot is occupied.
inc_ref_on_freed(h, id) ==
    IF ~InRange(h, id) THEN [heap |-> h, panic |-> Panic("inc_ref", "slot missing")]
    ELSE [heap |-> SetSlot(h, id, [slot(h, id) EXCEPT !.refcount = @ + 1]),
          panic |-> ""]

\* Heap::inc_ref: [heap, panic]
inc_ref(h, id) ==
    LET msg == expect_entry(h, id, "inc_ref") IN
    IF msg # "" THEN [heap |-> h, panic |-> msg]
    ELSE [heap |-> SetSlot(h, id, [slot(h, id) EXCEPT !.refcount = @ + 1]),
          panic |-> ""]

\* The ids of the Refs among items, in order, one per occurrence
\* (the filter_map of iadd_extend_list).
RECURSIVE ref_ids(_)
ref_ids(items) ==
    IF items = <<>> THEN <<>>
    ELSE (IF IsRef(Head(items)) THEN <<Head(items).id>> ELSE <<>>)
         \o ref_ids(Tail(items))

\* HeapData::py_dec_ref_ids: the child ids pushed on the stack. Str and Bytes
\* hold no Value; List, Tuple and Dict report every Ref they hold.
py_dec_ref_ids(data) ==
    IF data.kind \in {"Str", "Bytes"} THEN <<>> ELSE ref_ids(data.items)

\* dec_ref that frees the slot and forgets the children of its payload.
dec_ref_shallow(h, id) ==
    LET msg == expect_entry(h, id, "dec_ref") IN
    IF msg # "" THEN [heap |-> h, panic |-> msg]
    ELSE LET entry == slot(h, id) IN
         IF entry.refcount > 1
         THEN [heap |-> SetSlot(h, id, [entry EXCEPT !.refcount = @ - 1]), panic |-> ""]
         ELSE [heap |-> [entries |-> [h.entries EXCEPT ![id + 1] = NoneSlot],
                         free_list |-> Append(h.free_list, id)],
               panic |-> ""]

\* A dec_ref that empties the slot at refcount 0 and leaves the free list alone.
dec_ref_forgets_slot(h, id) ==
    LET msg == expect_entry(h, id, "dec_ref") IN
    IF msg # "" THEN [heap |-> h, panic |-> msg]
    ELSE IF slot(h, id).refcount > 1
    THEN [heap |-> SetSlot(h, id, [slot(h, id) EXCEPT !.refcount = @ - 1]), panic |-> ""]
    ELSE [heap |-> [entries |-> [h.entries EXCEPT ![id + 1] = NoneSlot],
                    free_list |-> h.free_list],
          panic |-> ""]

\* A dec_ref that collects a list held only by itself: when the Refs left
\* are the ones in the entry's own payload, the slot is freed.
dec_ref_collects_self(h, id) ==
    IF /\ expect_entry(h, id, "dec_ref") = ""
       /\ slot(h, id).refcount > 1
       /\ slot(h, id).refcount - 1
              = Cardinality({i \in 1 .. Len(slot(h, id).data.items) :
                                slot(h, id).data.items[i] = Ref(id)})
    THEN [heap |-> [entries |-> [h.entries EXCEPT ![id + 1] = NoneSlot],
                    free_list |-> Append(h.free_list, id)],
          panic |-> ""]
    ELSE dec_ref_shallow(h, id)

\* Heap::dec_ref: [heap, panic]. dec_ref_children is its `for child_id in child_ids` loop.
RECURSIVE dec_ref(_, _)
RECURSIVE dec_ref_children(_, _)
dec_ref(h, id) ==
    LET msg == expect_entry(h, id, "dec_ref") IN
    IF msg # "" THEN [heap |-> h, panic |-> msg]
    ELSE LET entry == slot(h, id) IN
         IF entry.refcount > 1
         THEN [heap |-> SetSlot(h, id, [entry EXCEPT !.refcount = @ - 1]), panic |-> ""]
         ELSE LET freed == [entries |-> [h.entries EXCEPT ![id + 1] = NoneSlot],
                            free_list |-> Append(h.free_list, id)]
              IN  IF entry.data.kind = "Taken"
                  THEN [heap |-> freed, panic |-> ""]
                  ELSE dec_ref_children(freed, py_dec_ref_ids(entry.data))

dec_ref_children(h, child_ids) ==
    IF child_ids = <<>> THEN [heap |-> h, panic |-> ""]
    ELSE LET r == dec_ref(h, Head(child_ids)) IN
         IF r.panic # "" THEN r ELSE dec_ref_children(r.heap, Tail(child_ids))

\* Heap::dec_ref with its invocations counted: depth is the largest number
\* of dec_ref invocations active at once, the one called included; each
\* child is released by a call made from inside the loop of its parent's
\* invocation. [heap, panic, depth]
RECURSIVE dec_ref_calls(_, _)
RECURSIVE dec_ref_children_calls(_, _, _)
dec_ref_calls_nested(r) == [heap |-> r.heap, panic |-> r.panic, depth |-> 1 + r.depth]
dec_ref_calls(h, id) ==
    IF expect_entry(h, id, "dec_ref") # ""
    THEN [heap |-> h, panic |-> expect_entry(h, id, "dec_ref"), depth |-> 1]
    ELSE IF slot(h, id).refcount > 1
    THEN [heap |-> SetSlot(h, id, [slot(h, id) EXCEPT !.refcount = @ - 1]), panic |-> "",
          depth |-> 1]
    ELSE IF slot(h, id).data.kind = "Taken"
    THEN [heap |-> [entries |-> [h.entries EXCEPT ![id + 1] = NoneSlot],
                    free_list |-> Append(h.free_list, id)],
          panic |-> "", depth |-> 1]
    ELSE dec_ref_calls_nested(
             dec_ref_children_calls([entries |-> [h.entries EXCEPT ![id + 1] = NoneSlot],
                                     free_list |-> Append(h.free_list, id)],
                                    py_dec_ref_ids(slot(h, id).data), 0))

dec_ref_children_next(r, child_ids, depth) ==
    IF r.panic # "" THEN [heap |-> r.heap, panic |-> r.panic, depth |-> Max(depth, r.depth)]
    ELSE dec_ref_children_calls(r.heap, Tail(child_ids), Max(depth, r.depth))
dec_ref_children_calls(h, child_ids, depth) ==
    IF child_ids = <<>> THEN [heap |-> h, panic |-> "", depth |-> depth]
    ELSE dec_ref_children_next(dec_ref_calls(h, Head(child_ids)), child_ids, depth)

\* Heap::get_refcount: [refcount, panic]
get_refcount(h, id) ==
    LET msg == expect_entry(h, id, "get_refcount") IN
    IF msg # "" THEN [refcount |-> 0, panic |-> msg]
    ELSE [refcount |-> slot(h, id).refcount, panic |-> ""]

\* Heap::entry_count
entry_count(h) == Cardinality({i \in 1 .. Len(h.entries) : h.entries[i].some})

\* Heap::get / Heap::get_mut: [data, panic]
get(h, id, func) ==
    LET msg == expect_entry(h, id, func) IN
    IF msg # "" THEN [data |-> Taken, panic |-> msg]
    ELSE IF slot(h, id).data.kind = "Taken"
         THEN [data |-> Taken, panic |-> Panic(func, "data currently borrowed")]
         ELSE [data |-> slot(h, id).data, panic |-> ""]

\* clear that empties entries and keeps the free list.
clear_entries_only(h) == [entries |-> <<>>, free_list |-> h.free_list]

\* clear that forgets the free list and keeps the entries.
clear_free_list_only(h) == [entries |-> h.entries, free_list |-> <<>>]

\* Heap::clear
clear(h) == [entries |-> <<>>, free_list |-> <<>>]

(* --------------------------- take / restore --------------------------- *)

\* take_data! without the last .expect(): a payload that is out is handed
\* out again as it is.
take_data_twice(h, id, func) ==
    LET msg == expect_entry(h, id, func) IN
    IF msg # "" THEN [heap |-> h, data |-> Taken, panic |-> msg]
    ELSE [heap |-> SetSlot(h, id, [slot(h, id) EXCEPT !.data = Taken]),
          data |-> slot(h, id).data, panic |-> ""]

\* take_data!: [heap, data, panic]
take_data(h, id, func) ==
    LET msg == expect_entry(h, id, func) IN
    IF msg # "" THEN [heap |-> h, data |-> Taken, panic |-> msg]
    ELSE IF slot(h, id).data.kind = "Taken"
         THEN [heap |-> h, data |-> Taken, panic |-> Panic(func, "data already borrowed")]
         ELSE [heap |-> SetSlot(h, id, [slot(h, id) EXCEPT !.data = Taken]),
               data |-> slot(h, id).data, panic |-> ""]

\* restore_data!: [heap, panic]
restore_data(h, id, new_data, func) ==
    LET msg == expect_entry(h, id, func) IN
    IF msg # "" THEN [heap |-> h, panic |-> msg]
    ELSE [heap |-> SetSlot(h, id, [slot(h, id) EXCEPT !.data = new_data]), panic |-> ""]

(* ------------------------------- hashing ------------------------------ *)

\* Option<u64>
SomeHash(v) == [some |-> TRUE, v |-> v]
NoHash == [some |-> FALSE, v |-> 0]

\* DefaultHasher: a deterministic digest of the words written to it. The
\* 64-bit SipHash state is abstracted to a polynomial fold over a small prime
\* field; only "same stream, same digest" is relied on.
hasher_new == 7
hasher_write(st, w) == (st * 31 + w + 1) % 65521

RECURSIVE hasher_write_all(_, _)
hasher_write_all(st, ws) ==
    IF ws = <<>> THEN st ELSE hasher_write_all(hasher_write(st, Head(ws)), Tail(ws))

\* str::hash writes the bytes and a 0xff terminator.
hash_str(b) == hasher_write(hasher_write_all(hasher_new, b), 255)
\* [u8]::hash writes the length and then the bytes.
hash_bytes(b) == hasher_write_all(hasher_write(hasher_new, Len(b)), b)

\* Heap::get_or_compute_hash: [heap, hash, panic]
\* hash_tuple_items is the Tuple arm of compute_hash_if_immutable: its loop over
\* the elements with the hasher state st.
RECURSIVE get_or_compute_hash(_, _)
RECURSIVE hash_tuple_items(_, _, _)

\* Value::py_hash_u64: a Ref asks the heap, an immediate hashes itself.
py_hash_u64(v, h) ==
    IF IsRef(v) THEN get_or_compute_hash(h, v.id)
    ELSE [heap |-> h, hash |-> SomeHash(hasher_write(hasher_new, 0)), panic |-> ""]

hash_tuple_items(items, h, st) ==
    IF items = <<>> THEN [heap |-> h, hash |-> SomeHash(st), panic |-> ""]
    ELSE LET r == py_hash_u64(Head(items), h) IN
         IF r.panic # "" THEN r
         ELSE IF ~r.hash.some THEN [heap |-> r.heap, hash |-> NoHash, panic |-> ""]
         ELSE hash_tuple_items(Tail(items), r.heap, hasher_write(st, r.hash.v))

\* A Tuple arm that hashes the length and never asks the elements.
compute_hash_if_immutable_shallow(data, h) ==
    CASE data.kind = "Str" -> [heap |-> h, hash |-> SomeHash(hash_str(data.bytes)), panic |-> ""]
      [] data.kind = "Bytes" -> [heap |-> h, hash |-> SomeHash(hash_bytes(data.bytes)), panic |-> ""]
      [] data.kind = "Tuple" ->
           [heap |-> h, hash |-> SomeHash(hasher_write(hasher_new, Len(data.items))), panic |-> ""]
      [] OTHER -> [heap |-> h, hash |-> NoHash, panic |-> ""]

\* HeapData::compute_hash_if_immutable: [heap, hash, panic]
compute_hash_if_immutable(data, h) ==
    CASE data.kind = "Str" -> [heap |-> h, hash |-> SomeHash(hash_str(data.bytes)), panic |-> ""]
      [] data.kind = "Bytes" -> [heap |-> h, hash |-> SomeHash(hash_bytes(data.bytes)), panic |-> ""]
      [] data.kind = "Tuple" -> hash_tuple_items(data.items, h, hasher_new)
      [] OTHER -> [heap |-> h, hash |-> NoHash, panic |-> ""]

\* get_or_compute_hash returning early, payload still out, when the entry
\* turns out to be unhashable.
get_or_compute_hash_early_return(h, id) ==
    LET msg == expect_entry(h, id, "get_or_compute_hash") IN
    IF msg # "" THEN [heap |-> h, hash |-> NoHash, panic |-> msg]
    ELSE LET entry == slot(h, id) IN
         CASE entry.hash_state.tag = "Unhashable" -> [heap |-> h, hash |-> NoHash, panic |-> ""]
           [] entry.hash_state.tag = "Cached" ->
                [heap |-> h, hash |-> SomeHash(entry.hash_state.hash), panic |-> ""]
           [] OTHER ->
                IF entry.data.kind = "Taken"
                THEN [heap |-> h, hash |-> NoHash,
                      panic |-> Panic("get_or_compute_hash", "data borrowed")]
                ELSE LET data == entry.data
                         c == compute_hash_if_immutable(
                                  data, SetSlot(h, id, [entry EXCEPT !.data = Taken]))
                     IN  IF c.panic # "" THEN c
                         ELSE IF ~c.hash.some
                         THEN [heap |-> SetSlot(c.heap, id,
                                          [slot(c.heap, id) EXCEPT !.hash_state = Unhashable]),
                               hash |-> NoHash, panic |-> ""]
                         ELSE [heap |-> SetSlot(c.heap, id,
                                          [slot(c.heap, id) EXCEPT
                                              !.data = data, !.hash_state = Cached(c.hash.v)]),
                               hash |-> c.hash, panic |-> ""]

get_or_compute_hash(h, id) ==
    LET msg == expect_entry(h, id, "get_or_compute_hash") IN
    IF msg # "" THEN [heap |-> h, hash |-> NoHash, panic |-> msg]
    ELSE LET entry == slot(h, id) IN
         CASE entry.hash_state.tag = "Unhashable" -> [heap |-> h, hash |-> NoHash, panic |-> ""]
           [] entry.hash_state.tag = "Cached" ->
                [heap |-> h, hash |-> SomeHash(entry.hash_state.hash), panic |-> ""]
           [] OTHER ->
                IF entry.data.kind = "Taken"
                THEN [heap |-> h, hash |-> NoHash,
                      panic |-> Panic("get_or_compute_hash", "data borrowed")]
                ELSE LET data == entry.data
                         c == compute_hash_if_immutable(
                                  data, SetSlot(h, id, [entry EXCEPT !.data = Taken]))
                     IN  IF c.panic # "" THEN c
                         ELSE IF ~InRange(c.heap, id)
                         THEN [heap |-> c.heap, hash |-> NoHash,
                               panic |-> Panic("get_or_compute_hash", "slot missing after compute")]
                         ELSE IF ~slot(c.heap, id).some
                         THEN [heap |-> c.heap, hash |-> NoHash,
                               panic |-> Panic("get_or_compute_hash", "object freed during compute")]
                         ELSE [heap |-> SetSlot(c.heap, id,
                                          [slot(c.heap, id) EXCEPT
                                              !.data = data,
                                              !.hash_state = IF c.hash.some THEN Cached(c.hash.v)
                                                             ELSE Unhashable]),
                               hash |-> c.hash, panic |-> ""]

(* -------------------------- iadd_extend_list -------------------------- *)

\* The `for id in ref_ids { self.inc_ref(id) }` loop: [heap, panic]
RECURSIVE inc_ref_all(_, _)
inc_ref_all(h, ids) ==
    IF ids = <<>> THEN [heap |-> h, panic |-> ""]
    ELSE LET r == inc_ref(h, Head(ids)) IN
         IF r.panic # "" THEN r ELSE inc_ref_all(r.heap, Tail(ids))

\* iadd_extend_list copying the items without an inc_ref for the copies.
iadd_extend_list_no_inc(h, source_id, dest) ==
    LET t == take_data(h, source_id, "iadd_extend_list") IN
    IF t.panic # "" THEN [heap |-> t.heap, dest |-> dest, success |-> FALSE, panic |-> t.panic]
    ELSE LET rs == restore_data(t.heap, source_id, t.data, "iadd_extend_list") IN
         IF t.data.kind = "List" /\ rs.panic = ""
         THEN [heap |-> rs.heap, dest |-> dest \o t.data.items, success |-> TRUE, panic |-> ""]
         ELSE [heap |-> rs.heap, dest |-> dest, success |-> FALSE, panic |-> rs.panic]

\* The ids among ids, each once, in order of first occurrence.
RECURSIVE distinct_ids(_)
distinct_ids(ids) ==
    IF ids = <<>> THEN <<>>
    ELSE <<Head(ids)>> \o distinct_ids(SelectSeq(Tail(ids), LAMBDA id : id # Head(ids)))

\* iadd_extend_list with one inc_ref per entry the source refers to, however
\* often the source holds it.
iadd_extend_list_inc_once(h, source_id, dest) ==
    LET t == take_data(h, source_id, "iadd_extend_list") IN
    IF t.panic # "" THEN [heap |-> t.heap, dest |-> dest, success |-> FALSE, panic |-> t.panic]
    ELSE LET rs == restore_data(t.heap, source_id, t.data, "iadd_extend_list") IN
         IF t.data.kind = "List" /\ rs.panic = ""
         THEN [heap |-> inc_ref_all(rs.heap, distinct_ids(ref_ids(t.data.items))).heap,
               dest |-> dest \o t.data.items, success |-> TRUE, panic |-> ""]
         ELSE [heap |-> rs.heap, dest |-> dest, success |-> FALSE, panic |-> rs.panic]

\* Heap::iadd_extend_list: [heap, dest, success, panic]
iadd_extend_list(h, source_id, dest) ==
    LET t == take_data(h, source_id, "iadd_extend_list") IN
    IF t.panic # "" THEN [heap |-> t.heap, dest |-> dest, success |-> FALSE, panic |-> t.panic]
    ELSE IF t.data.kind = "List"
    THEN LET items == t.data.items
             rs == restore_data(t.heap, source_id, t.data, "iadd_extend_list")
             inc == inc_ref_all(rs.heap, ref_ids(items))
         IN  IF rs.panic # ""
             THEN [heap |-> rs.heap, dest |-> dest, success |-> FALSE, panic |-> rs.panic]
             ELSE IF inc.panic # ""
             THEN [heap |-> inc.heap, dest |-> dest, success |-> FALSE, panic |-> inc.panic]
             ELSE [heap |-> inc.heap, dest |-> dest \o items, success |-> TRUE, panic |-> ""]
    ELSE LET rs == restore_data(t.heap, source_id, t.data, "iadd_extend_list") IN
         [heap |-> rs.heap, dest |-> dest, success |-> FALSE, panic |-> rs.panic]

\* The heap after each inc_ref of the loop, in order.
RECURSIVE inc_ref_heaps(_, _)
inc_ref_heaps(h, ids) ==
    IF ids = <<>> THEN <<>>
    ELSE <<inc_ref(h, Head(ids)).heap>> \o inc_ref_heaps(inc_ref(h, Head(ids)).heap, Tail(ids))

\* The List arm after the take: the heap after restore_data! and after each
\* inc_ref that follows it.
iadd_extend_list_restored(rs, items) == <<rs.heap>> \o inc_ref_heaps(rs.heap, ref_ids(items))

\* The heap after each step of a call of iadd_extend_list that
\* does not panic: take_data!, then restore_data! and the inc_ref loop for a
\* List, restore_data! alone for any other source.
iadd_extend_list_heaps(h, source_id) ==
    LET t == take_data(h, source_id, "iadd_extend_list") IN
    IF t.data.kind = "List"
    THEN <<t.heap>> \o iadd_extend_list_restored(
             restore_data(t.heap, source_id, t.data, "iadd_extend_list"), t.data.items)
    ELSE <<t.heap, restore_data(t.heap, source_id, t.data, "iadd_extend_list").heap>>

(* --------------------------- borrow helpers --------------------------- *)

\* An active invocation: the helper, the ids it took and the payloads handed to f.
Frame(op, left, right, args) == [op |-> op, left |-> left, right |-> right, args |-> args]

\* Heap::with_entry_mut up to the call of f: [heap, data, panic]
with_entry_mut_take(h, id) == take_data(h, id, "with_entry_mut")
\* with_entry_mut returning the result of f without the restore.
with_entry_mut_no_restore(h, id, data) == [heap |-> h, panic |-> ""]
\* Heap::with_entry_mut after f returned: [heap, panic]
with_entry_mut_restore(h, id, data) == restore_data(h, id, data, "with_entry_mut")

\* call_attr handing back the result of py_call_attr without the restore.
call_attr_no_restore(h, id, data) == [heap |-> h, panic |-> ""]
\* Heap::call_attr up to py_call_attr, and its restore: the same two steps.
call_attr_take(h, id) == take_data(h, id, "call_attr")
call_attr_restore(h, id, data) == restore_data(h, id, data, "call_attr")

\* with_two without the left == right case: always takes twice.
with_two_take_twice(h, left, right) ==
    LET l == take_data(h, left, "with_two (left)") IN
    IF l.panic # "" THEN [heap |-> l.heap, args |-> <<Taken, Taken>>, panic |-> l.panic]
    ELSE LET r == take_data(l.heap, right, "with_two (right)") IN
         [heap |-> r.heap, args |-> <<l.data, r.data>>, panic |-> r.panic]

\* Heap::with_two up to the call of f: [heap, args, panic]
with_two_take(h, left, right) ==
    IF left = right
    THEN LET t == take_data(h, left, "with_two") IN
         [heap |-> t.heap, args |-> <<t.data, t.data>>, panic |-> t.panic]
    ELSE LET l == take_data(h, left, "with_two (left)") IN
         IF l.panic # "" THEN [heap |-> l.heap, args |-> <<Taken, Taken>>, panic |-> l.panic]
         ELSE LET r == take_data(l.heap, right, "with_two (right)") IN
              [heap |-> r.heap, args |-> <<l.data, r.data>>, panic |-> r.panic]

\* Heap::with_two after f returned: [heap, panic]
with_two_restore(h, left, right, args) ==
    IF left = right
    THEN restore_data(h, left, args[1], "with_two")
    ELSE LET r == restore_data(h, right, args[2], "with_two (right)") IN
         IF r.panic # "" THEN r
         ELSE restore_data(r.heap, left, args[1], "with_two (left)")

(* ------------------- payload mutation by the callers ------------------ *)

\* Str::py_iadd / Bytes::py_iadd on the payload of self_id: appends in place
\* when the target's refcount is 1, else reports failure (the caller then
\* allocates). [data, done]
py_iadd_bytes(data, b, h, self_id) ==
    IF data.kind \in {"Str", "Bytes"} /\ get_refcount(h, self_id).refcount = 1
    THEN [data |-> [data EXCEPT !.bytes = Append(@, b)], done |-> TRUE]
    ELSE [data |-> data, done |-> FALSE]

\* list.append through py_call_attr: the Value moves into the payload.
push_item(data, v) == [data EXCEPT !.items = Append(@, v)]

(* ----------------------------- PrintWriter ---------------------------- *)

\* Text is a sequence of characters. PrintWriter: [mode, buf, sent, refuses].
\* buf is the String of Collect; sent is what went to the process's standard
\* output (Stdout) or to the callback (Callback); refuses tells whether the
\* embedder's callback answers every call with an error.
PrintWriter(mode, refuses) == [mode |-> mode, buf |-> <<>>, sent |-> <<>>, refuses |-> refuses]
Disabled == PrintWriter("Disabled", FALSE)

\* stdout_write that makes a Collect buffer hold the last text only.
stdout_write_replaces(w, output) ==
    IF w.mode = "Disabled" THEN [writer |-> w, err |-> ""]
    ELSE IF w.mode = "Stdout" THEN [writer |-> [w EXCEPT !.sent = @ \o output], err |-> ""]
    ELSE IF w.mode = "Collect" THEN [writer |-> [w EXCEPT !.buf = output], err |-> ""]
    ELSE IF w.refuses THEN [writer |-> w, err |-> "callback"]
    ELSE [writer |-> [w EXCEPT !.sent = @ \o output], err |-> ""]

\* PrintWriter::stdout_write. [writer, err]
stdout_write(w, output) ==
    IF w.mode = "Disabled" THEN [writer |-> w, err |-> ""]
    ELSE IF w.mode = "Stdout" THEN [writer |-> [w EXCEPT !.sent = @ \o output], err |-> ""]
    ELSE IF w.mode = "Collect" THEN [writer |-> [w EXCEPT !.buf = @ \o output], err |-> ""]
    ELSE IF w.refuses THEN [writer |-> w, err |-> "callback"]
    ELSE [writer |-> [w EXCEPT !.sent = @ \o output], err |-> ""]

\* stdout_push that a Disabled writer collects.
stdout_push_collected_by_disabled(w, end) ==
    IF w.mode \in {"Disabled", "Collect"} THEN [writer |-> [w EXCEPT !.buf = Append(@, end)], err |-> ""]
    ELSE IF w.mode = "Stdout" THEN [writer |-> [w EXCEPT !.sent = Append(@, end)], err |-> ""]
    ELSE IF w.refuses THEN [writer |-> w, err |-> "callback"]
    ELSE [writer |-> [w EXCEPT !.sent = Append(@, end)], err |-> ""]

\* PrintWriter::stdout_push. [writer, err]
stdout_push(w, end) ==
    IF w.mode = "Disabled" THEN [writer |-> w, err |-> ""]
    ELSE IF w.mode = "Stdout" THEN [writer |-> [w EXCEPT !.sent = Append(@, end)], err |-> ""]
    ELSE IF w.mode = "Collect" THEN [writer |-> [w EXCEPT !.buf = Append(@, end)], err |-> ""]
    ELSE IF w.refuses THEN [writer |-> w, err |-> "callback"]
    ELSE [writer |-> [w EXCEPT !.sent = Append(@, end)], err |-> ""]

\* PrintWriter::collected_output: Option<&str> as [some, text]
collected_output(w) ==
    IF w.mode = "Collect" THEN [some |-> TRUE, text |-> w.buf] ELSE [some |-> FALSE, text |-> <<>>]

\* The embedder's runs of one program with one writer and one tracker
\* setting: n counts the runs started and log lists every text and character
\* handed to the writer, in call order. limit is the tracker's
\* max_heap_allocations and used the allocations it has counted in this run.
\* program lists the statements the first run executed and seen what each
\* of them showed; again is what the statements of the second run showed.
\* start is the length of the Collect buffer when this run began and first
\* the text the first run added to it.
NoRun ==
    [n |-> 0, log |-> <<>>, limit |-> 0, used |-> 0, program |-> <<>>, seen |-> <<>>,
     again |-> <<>>, start |-> 0, first |-> <<>>]

(* -------------------------------- print ------------------------------- *)

\* The texts of a sequence, one after the other.
RECURSIVE Flatten(_)
Flatten(texts) == IF texts = <<>> THEN <<>> ELSE Head(texts) \o Flatten(Tail(texts))

\* The objects printed: [type, n, chars].
StrObject(chars) == [type |-> "str", n |-> 0, chars |-> chars]
IntObject(n) == [type |-> "int", n |-> n, chars |-> <<>>]
BoolObject(b) == [type |-> "bool", n |-> IF b THEN 1 ELSE 0, chars |-> <<>>]
NoneObject == [type |-> "NoneType", n |-> 0, chars |-> <<>>]

\* The decimal digits of a natural number.
RECURSIVE Digits(_)
Digits(n) ==
    LET digit == <<"0", "1", "2", "3", "4", "5", "6", "7", "8", "9">>[(n % 10) + 1] IN
    IF n < 10 THEN <<digit>> ELSE Append(Digits(n \div 10), digit)

\* py_str: what print writes for an argument.
py_str(o) ==
    IF o.type = "str" THEN o.chars
    ELSE IF o.type = "int" THEN Digits(o.n)
    ELSE IF o.type = "bool" THEN (IF o.n = 1 THEN <<"T", "r", "u", "e">> ELSE <<"F", "a", "l", "s", "e">>)
    ELSE <<"N", "o", "n", "e">>

\* The keyword arguments sep and end: not given, None, or a str.
Absent == [kw |-> "Absent", chars |-> <<>>]
NoneKw == [kw |-> "None", chars |-> <<>>]
StrKw(chars) == [kw |-> "str", chars |-> chars]

\* A separator or terminator goes out as one stdout_push when it is a single
\* character, as one stdout_write when it is longer, and not at all when it
\* is empty. [writer, err, log]
emit(r, chars) ==
    IF r.err # "" \/ chars = <<>> THEN r
    ELSE LET out == IF Len(chars) = 1 THEN stdout_push(r.writer, chars[1])
                    ELSE stdout_write(r.writer, chars)
         IN  [writer |-> out.writer, err |-> out.err, log |-> Append(r.log, chars)]

\* One stdout_write per argument, the separator before every argument but
\* the first; the first error of the writer ends the call.
RECURSIVE print_args(_, _, _, _)
print_args(r, args, sep, at) ==
    IF at > Len(args) \/ r.err # "" THEN r
    ELSE LET sepd == IF at > 1 THEN emit(r, sep) ELSE r
             out == stdout_write(sepd.writer, py_str(args[at]))
         IN  IF sepd.err # "" THEN sepd
             ELSE print_args([writer |-> out.writer, err |-> out.err,
                              log |-> Append(sepd.log, py_str(args[at]))],
                             args, sep, at + 1)

\* print(*args, sep=.., end=.., flush=..): sep is a single space and end a
\* newline when they are not given or None; flush is accepted and has no
\* effect, and so has the way the keywords were written (as keywords or as a
\* mapping expanded with **).
builtin_print(args, sep, end, flush, expanded, w) ==
    LET sep_chars == IF sep.kw = "str" THEN sep.chars ELSE <<" ">>
        end_chars == IF end.kw = "str" THEN end.chars ELSE <<"\n">>
    IN  emit(print_args([writer |-> w, err |-> "", log |-> <<>>], args, sep_chars, 1), end_chars)

(* ---------------------------- state machine --------------------------- *)

Values == {NoneValue} \cup {Ref(i) : i \in Ids}
ItemSeqs(n) == UNION {[1 .. k -> Values] : k \in 0 .. n}
ByteSeqs == UNION {[1 .. n -> {120}] : n \in 0 .. MaxStrLen}
\* What callers allocate. The heap treats the contents of Bytes like those of
\* Str and the Values of a Dict like those of a List, so Bytes and Dict stand
\* in with their empty payloads.
Payloads ==
    {Str(b) : b \in ByteSeqs} \cup {Bytes(<<>>)}
    \cup {List(v) : v \in ItemSeqs(MaxItems)} \cup {Tuple(v) : v \in ItemSeqs(MaxItems)}
    \cup {Dict(<<>>)}
\* What a callback hands back: R of with_entry_mut / with_two, RunResult of call_attr.
Results == {"Ok", "Err"}

\* Occurrences of Ref(id) in a sequence of Values.
CountIn(items, id) == Cardinality({i \in 1 .. Len(items) : items[i] = Ref(id)})

NoRoots == [id \in Ids |-> 0]
\* The caller owns every Ref it moves into a payload.
OwnsRefs(items) == \A id \in Ids : CountIn(items, id) <= roots[id]
MoveIn(items) == [id \in Ids |-> roots[id] - CountIn(items, id)]

Running == halt = ""

\* A call's result: the id it was about (or returned), a callback's result,
\* a hash. NoRet after the calls that return nothing of interest.
Ret(op, id, res, hash) == [op |-> op, id |-> id, res |-> res, hash |-> hash]
NoRet == Ret("", 0, "", NoHash)

\* A borrower keeps the entries it borrowed alive until its helper returns.
KeepsBorrowed(h) ==
    \A i \in 1 .. Len(frames) : IsSome(h, frames[i].left) /\ IsSome(h, frames[i].right)

Top == frames[Len(frames)]
SetTopData(data) == [frames EXCEPT ![Len(frames)].args = <<data>>]

Init ==
    /\ heap = new
    /\ roots = NoRoots
    /\ frames = <<>>
    /\ halt = ""
    /\ ret = NoRet
    /\ peak = 0
    /\ writer = Disabled
    /\ run = NoRun

\* A panic (.expect) or a resource error ends the run: the stack unwinds and
\* the heap and every Value of the run go with it.
Halt(msg) ==
    /\ halt' = msg
    /\ heap' = new
    /\ roots' = NoRoots
    /\ frames' = <<>>
    /\ ret' = NoRet
    /\ peak' = 0

\* A tracker consulted only after the entry is in place.
allocate_tracked_late(h, data, allow) ==
    LET a == allocate(h, data) IN
    [heap |-> a.heap, id |-> a.id,
     err |-> IF allow THEN "" ELSE "ResourceError::AllocationLimit"]

\* ResourceTracker-checked allocation: when the tracker denies, the call fails
\* with ResourceError::AllocationLimit before the heap is touched. [heap, id, err]
allocate_tracked(h, data, allow) ==
    IF allow THEN LET a == allocate(h, data) IN [heap |-> a.heap, id |-> a.id, err |-> ""]
    ELSE [heap |-> h, id |-> 0, err |-> "ResourceError::AllocationLimit"]

\* heap.allocate(data): the new Ref goes to the caller; a denial ends the run.
Allocate(data, allow, cap) ==
    /\ Running /\ UNCHANGED io
    /\ heap.free_list # <<>> \/ Len(heap.entries) < cap
    /\ OwnsRefs(data.items)
    /\ LET a == allocate_tracked(heap, data, allow) IN
       IF a.err # ""
       THEN \* Err(ResourceError) comes back to the caller with the heap as it is;
            \* the payload and the frame's Values are dropped.
            /\ halt' = a.err
            /\ heap' = a.heap
            /\ roots' = NoRoots
            /\ frames' = <<>>
            /\ ret' = NoRet
            /\ peak' = 0
       ELSE /\ heap' = a.heap
            /\ roots' = [MoveIn(data.items) EXCEPT ![a.id] = @ + 1]
            /\ peak' = Max(peak, entry_count(a.heap))
            /\ ret' = Ret("allocate", a.id, "", NoHash)
            /\ UNCHANGED <<frames, halt>>

\* Value::clone_with_heap on a Ref(id): inc_ref, and one more copy with the caller.
IncRef(id) ==
    /\ Running /\ UNCHANGED io
    /\ IsSome(heap, id) => slot(heap, id).refcount < MaxRefcount
    /\ LET r == inc_ref(heap, id) IN
       IF r.panic # "" THEN Halt(r.panic)
       ELSE /\ heap' = r.heap
            /\ roots' = [roots EXCEPT ![id] = @ + 1]
            /\ ret' = NoRet
            /\ UNCHANGED <<frames, halt, peak>>

\* Value::drop_with_heap on a Ref(id) the caller holds (or on a stale id): dec_ref.
DecRef(id) ==
    /\ Running /\ UNCHANGED io
    /\ LET r == dec_ref(heap, id) IN
       /\ IsSome(heap, id) => roots[id] > 0 /\ KeepsBorrowed(r.heap)
       /\ IF r.panic # "" THEN Halt(r.panic)
          ELSE /\ heap' = r.heap
               /\ roots' = [roots EXCEPT ![id] = @ - 1]
               /\ ret' = NoRet
               /\ UNCHANGED <<frames, halt, peak>>

\* heap.get(id) and heap.get_refcount(id): reads.
Get(id) ==
    /\ Running /\ UNCHANGED io
    /\ LET g == get(heap, id, "get") IN
       IF g.panic # "" THEN Halt(g.panic)
       ELSE ret' = NoRet /\ UNCHANGED <<heap, roots, frames, halt, peak>>

GetRefcount(id) ==
    /\ Running /\ UNCHANGED io
    /\ LET g == get_refcount(heap, id) IN
       IF g.panic # "" THEN Halt(g.panic)
       ELSE ret' = NoRet /\ UNCHANGED <<heap, roots, frames, halt, peak>>

\* heap.get_mut(id) followed by a push onto the list behind the reference.
GetMutPush(id, v) ==
    /\ Running /\ UNCHANGED io
    /\ LET g == get(heap, id, "get_mut") IN
       IF g.panic # "" THEN Halt(g.panic)
       ELSE /\ g.data.kind = "List"
            /\ Len(g.data.items) < MaxItems
            /\ OwnsRefs(<<v>>)
            /\ heap' = SetSlot(heap, id, [slot(heap, id) EXCEPT !.data = push_item(g.data, v)])
            /\ roots' = MoveIn(<<v>>)
            /\ ret' = NoRet
            /\ UNCHANGED <<frames, halt, peak>>

GetOrComputeHash(id) ==
    /\ Running /\ UNCHANGED io
    /\ LET r == get_or_compute_hash(heap, id) IN
       IF r.panic # "" THEN Halt(r.panic)
       ELSE /\ heap' = r.heap
            /\ ret' = Ret("get_or_compute_hash", id, "", r.hash)
            /\ UNCHANGED <<roots, frames, halt, peak>>

\* heap.with_entry_mut(id, f) up to the point where f runs. The caller holds
\* the Value it works on.
WithEntryMutCall(id) ==
    /\ Running /\ UNCHANGED io
    /\ Len(frames) < MaxDepth
    /\ IsSome(heap, id) => roots[id] > 0
    /\ LET t == with_entry_mut_take(heap, id) IN
       IF t.panic # "" THEN Halt(t.panic)
       ELSE /\ heap' = t.heap
            /\ frames' = Append(frames, Frame("with_entry_mut", id, id, <<t.data>>))
            /\ ret' = NoRet
            /\ UNCHANGED <<roots, halt, peak>>

CallAttrCall(id) ==
    /\ Running /\ UNCHANGED io
    /\ Len(frames) < MaxDepth
    /\ IsSome(heap, id) => roots[id] > 0
    /\ LET t == call_attr_take(heap, id) IN
       IF t.panic # "" THEN Halt(t.panic)
       ELSE /\ heap' = t.heap
            /\ frames' = Append(frames, Frame("call_attr", id, id, <<t.data>>))
            /\ ret' = NoRet
            /\ UNCHANGED <<roots, halt, peak>>

WithTwoCall(left, right) ==
    /\ Running /\ UNCHANGED io
    /\ Len(frames) < MaxDepth
    /\ LET t == with_two_take(heap, left, right) IN
       IF t.panic # "" THEN Halt(t.panic)
       ELSE /\ heap' = t.heap
            /\ frames' = Append(frames, Frame("with_two", left, right, t.args))
            /\ ret' = NoRet
            /\ UNCHANGED <<roots, halt, peak>>

\* Inside f of with_entry_mut / py_call_attr of call_attr: list.append(v).
CallbackPush(v) ==
    /\ Running /\ UNCHANGED io
    /\ frames # <<>>
    /\ Top.op \in {"with_entry_mut", "call_attr"}
    /\ Top.args[1].kind = "List"
    /\ Len(Top.args[1].items) < MaxItems
    /\ OwnsRefs(<<v>>)
    /\ frames' = SetTopData(push_item(Top.args[1], v))
    /\ roots' = MoveIn(<<v>>)
    /\ ret' = NoRet
    /\ UNCHANGED <<heap, halt, peak>>

\* Inside f: data.py_iadd(other, heap, Some(id)) on a Str or Bytes payload.
CallbackIaddBytes ==
    /\ Running /\ UNCHANGED io
    /\ frames # <<>>
    /\ Top.op \in {"with_entry_mut", "call_attr"}
    /\ Top.args[1].kind \in {"Str", "Bytes"}
    /\ Len(Top.args[1].bytes) < MaxStrLen
    /\ frames' = SetTopData(py_iadd_bytes(Top.args[1], 120, heap, Top.left).data)
    /\ ret' = NoRet
    /\ UNCHANGED <<heap, roots, halt, peak>>

\* Inside f: List::py_iadd extends its own vector with heap.iadd_extend_list.
CallbackIaddExtendList(source_id) ==
    /\ Running /\ UNCHANGED io
    /\ frames # <<>>
    /\ Top.op \in {"with_entry_mut", "call_attr"}
    /\ Top.args[1].kind = "List"
    /\ LET r == iadd_extend_list(heap, source_id, Top.args[1].items) IN
       IF r.panic # "" THEN Halt(r.panic)
       ELSE /\ Len(r.dest) <= MaxItems
            /\ heap' = r.heap
            /\ frames' = SetTopData([Top.args[1] EXCEPT !.items = r.dest])
            /\ ret' = NoRet
            /\ UNCHANGED <<roots, halt, peak>>

\* f returns result: the helper restores what it took and returns the result.
Return(result) ==
    /\ Running /\ UNCHANGED io
    /\ frames # <<>>
    /\ LET r == CASE Top.op = "with_entry_mut" ->
                        with_entry_mut_restore(heap, Top.left, Top.args[1])
                  [] Top.op = "call_attr" -> call_attr_restore(heap, Top.left, Top.args[1])
                  [] OTHER -> with_two_restore(heap, Top.left, Top.right, Top.args)
       IN IF r.panic # "" THEN Halt(r.panic)
          ELSE /\ heap' = r.heap
               /\ ret' = Ret(Top.op, Top.left, result, NoHash)
               /\ frames' = SubSeq(frames, 1, Len(frames) - 1)
               /\ UNCHANGED <<roots, halt, peak>>

\* heap.clear() between runs: the previous run's Values are gone with it.
Clear ==
    /\ Running /\ UNCHANGED io
    /\ frames = <<>>
    /\ heap' = clear(heap)
    /\ roots' = NoRoots
    /\ ret' = NoRet
    /\ UNCHANGED <<frames, halt, peak>>

Next ==
    \/ \E data \in Payloads, allow \in BOOLEAN : Allocate(data, allow, MaxSlots)
    \/ \E id \in Ids : IncRef(id)
    \/ \E id \in Ids : DecRef(id)
    \/ \E id \in Ids : Get(id)
    \/ \E id \in Ids : GetRefcount(id)
    \/ \E id \in Ids, v \in Values : GetMutPush(id, v)
    \/ \E id \in Ids : GetOrComputeHash(id)
    \/ \E id \in Ids : WithEntryMutCall(id)
    \/ \E id \in Ids : CallAttrCall(id)
    \/ \E left \in Ids, right \in Ids : WithTwoCall(left, right)
    \/ \E v \in Values : CallbackPush(v)
    \/ CallbackIaddBytes
    \/ \E id \in Ids : CallbackIaddExtendList(id)
    \/ \E result \in Results : Return(result)
    \/ Clear

Spec == Init /\ [][Next]_vars

\* Inside f: a Value the run holds is dropped, whether or not its entry is
\* the one f works on.
CallbackDecRef(id) ==
    /\ Running /\ UNCHANGED io
    /\ frames # <<>>
    /\ IsSome(heap, id) /\ roots[id] > 0
    /\ LET r == dec_ref(heap, id) IN
       IF r.panic # "" THEN Halt(r.panic)
       ELSE /\ heap' = r.heap
            /\ roots' = [roots EXCEPT ![id] = @ - 1]
            /\ ret' = NoRet
            /\ UNCHANGED <<frames, halt, peak>>

\* The borrow helpers with callbacks that drop and allocate: an entry may
\* lose its last reference while its payload is out.
BorrowPayloads == {Str(<<>>), List(<<>>)} \cup {List(<<Ref(i)>>) : i \in Ids}

NextBorrow ==
    \/ \E data \in BorrowPayloads : Allocate(data, TRUE, MaxSlots)
    \/ \E id \in Ids : IncRef(id)
    \/ \E id \in Ids : WithEntryMutCall(id)
    \/ \E id \in Ids : CallAttrCall(id)
    \/ \E left \in Ids, right \in Ids : WithTwoCall(left, right)
    \/ \E id \in Ids : CallbackDecRef(id)
    \/ \E result \in Results : Return(result)

SpecBorrow == Init /\ [][NextBorrow]_vars

\* Hashing alone, on one more slot: strings, lists and tuples nested in
\* tuples, built bottom-up, shared and hashed.
HashPayloads ==
    {Str(<<>>), Str(<<120>>), List(<<>>)} \cup {Tuple(v) : v \in ItemSeqs(MaxItems) \ {<<>>}}

NextHash ==
    \/ \E data \in HashPayloads : Allocate(data, TRUE, MaxSlots + 1)
    \/ \E id \in Ids : IncRef(id)
    \/ \E id \in Ids : GetOrComputeHash(id)

SpecHash == Init /\ [][NextHash]_vars

\* The refcount life cycle alone, on one more slot: lists of Refs built,
\* shared, extended and dropped.
RefValues == {Ref(i) : i \in Ids}
ListPayloads == {List(v) : v \in UNION {[1 .. k -> RefValues] : k \in 0 .. MaxItems}}

NextRefs ==
    \/ \E data \in ListPayloads, allow \in BOOLEAN : Allocate(data, allow, MaxSlots + 1)
    \/ \E id \in Ids : IncRef(id)
    \/ \E id \in Ids : DecRef(id)
    \/ \E id \in Ids, v \in RefValues : GetMutPush(id, v)
    \/ \E id \in Ids : WithEntryMutCall(id)
    \/ \E v \in RefValues : CallbackPush(v)
    \/ \E id \in Ids : CallbackIaddExtendList(id)
    \/ \E result \in Results : Return(result)
    \/ Clear

SpecRefs == Init /\ [][NextRefs]_vars

(* ------------------------- operator dispatch -------------------------- *)

\* Immediate Values of the evaluator next to Ref and None; the id field
\* carries the immediate.
IntValue(n) == [tag |-> "Int", id |-> n]
BoolValue(b) == [tag |-> "Bool", id |-> IF b THEN 1 ELSE 0]
FunctionValue(k) == [tag |-> "Function", id |-> k]

\* Option<Value> of py_add / py_sub / py_mod with the heap it leaves:
\* [some, value, heap, panic]
SomeValue(v, h) == [some |-> TRUE, value |-> v, heap |-> h, panic |-> ""]
NoValue(h) == [some |-> FALSE, value |-> NoneValue, heap |-> h, panic |-> ""]
PanicValue(h, msg) == [some |-> FALSE, value |-> NoneValue, heap |-> h, panic |-> msg]

RECURSIVE py_eq(_, _, _)
RECURSIVE items_py_eq(_, _, _)

\* Value::py_eq: immediates by value, two Refs by identity or by their
\* payloads. [eq, panic]
value_py_eq(v, w, h) ==
    IF IsRef(v) /\ IsRef(w)
    THEN IF v.id = w.id THEN [eq |-> TRUE, panic |-> ""]
         ELSE LET a == get(h, v.id, "get")
                  b == get(h, w.id, "get")
              IN  IF a.panic # "" THEN [eq |-> FALSE, panic |-> a.panic]
                  ELSE IF b.panic # "" THEN [eq |-> FALSE, panic |-> b.panic]
                  ELSE py_eq(a.data, b.data, h)
    ELSE [eq |-> v = w, panic |-> ""]

\* List / Tuple / Dict py_eq: length first, then item by item up to the first
\* difference.
items_py_eq(s, t, h) ==
    IF Len(s) # Len(t) THEN [eq |-> FALSE, panic |-> ""]
    ELSE IF s = <<>> THEN [eq |-> TRUE, panic |-> ""]
    ELSE LET r == value_py_eq(Head(s), Head(t), h) IN
         IF r.panic # "" \/ ~r.eq THEN r ELSE items_py_eq(Tail(s), Tail(t), h)

\* The py_eq of one variant: Str and Bytes are byte-equal.
same_variant_py_eq(a, b, h) ==
    IF a.kind \in {"Str", "Bytes"} THEN [eq |-> a.bytes = b.bytes, panic |-> ""]
    ELSE items_py_eq(a.items, b.items, h)

\* py_eq without the catch-all arm: payloads are compared by content whatever
\* their variants.
py_eq_by_content(a, b, h) ==
    IF a.bytes # b.bytes THEN [eq |-> FALSE, panic |-> ""]
    ELSE items_py_eq(a.items, b.items, h)

\* HeapData::py_eq: [eq, panic]
py_eq(a, b, h) ==
    IF a.kind = b.kind THEN same_variant_py_eq(a, b, h)
    ELSE [eq |-> FALSE, panic |-> ""]

\* The py_add of one variant: Str concatenates into a new allocation, List
\* concatenates into a new allocation whose items each take one more
\* refcount; the other variants keep the trait's default, None.
same_variant_py_add(a, b, h) ==
    IF a.kind = "Str"
    THEN LET n == allocate(h, Str(a.bytes \o b.bytes)) IN SomeValue(Ref(n.id), n.heap)
    ELSE IF a.kind = "List"
    THEN LET items == a.items \o b.items
             r == inc_ref_all(h, ref_ids(items))
         IN  IF r.panic # "" THEN PanicValue(r.heap, r.panic)
             ELSE LET n == allocate(r.heap, List(items)) IN SomeValue(Ref(n.id), n.heap)
    ELSE NoValue(h)

\* HeapData::py_add
py_add(a, b, h) ==
    IF a.kind = b.kind THEN same_variant_py_add(a, b, h) ELSE NoValue(h)

\* No heap variant subtracts or takes a modulus: the per-variant py_sub,
\* py_mod and py_mod_eq keep the trait's defaults.
same_variant_unsupported(a, b, h) == NoValue(h)

\* HeapData::py_sub
py_sub(a, b, h) ==
    IF a.kind = b.kind THEN same_variant_unsupported(a, b, h) ELSE NoValue(h)

\* HeapData::py_mod (takes no heap; h is handed through for the result record)
py_mod(a, b, h) ==
    IF a.kind = b.kind THEN same_variant_unsupported(a, b, h) ELSE NoValue(h)

\* HeapData::py_mod_eq: Option<bool> as [some, eq]
py_mod_eq(a, b, right_value) ==
    IF a.kind = b.kind THEN [some |-> FALSE, eq |-> FALSE]
    ELSE [some |-> FALSE, eq |-> FALSE]

\* Value::py_type / HeapData::py_type as the Python type name.
py_type(v, h) ==
    IF v.tag = "Int" THEN "int"
    ELSE IF v.tag = "Bool" THEN "bool"
    ELSE IF v.tag = "None" THEN "NoneType"
    ELSE IF v.tag = "Function" THEN "function"
    ELSE IF v.tag = "Builtin" THEN "builtin_function_or_method"
    ELSE LET kind == slot(h, v.id).data.kind IN
         IF kind = "Str" THEN "str"
         ELSE IF kind = "Bytes" THEN "bytes"
         ELSE IF kind = "List" THEN "list"
         ELSE IF kind = "Tuple" THEN "tuple"
         ELSE "dict"

\* Value::py_bool / HeapData::py_bool: zero, False, None and empty
\* strings, bytes and containers are false.
py_bool(v, h) ==
    IF v.tag \in {"Int", "Bool"} THEN v.id # 0
    ELSE IF v.tag = "None" THEN FALSE
    ELSE IF v.tag \in {"Function", "Builtin"} THEN TRUE
    ELSE LET data == slot(h, v.id).data IN
         IF data.kind \in {"Str", "Bytes"} THEN data.bytes # <<>> ELSE data.items # <<>>

\* Value::clone_with_heap / Value::drop_with_heap: inc_ref / dec_ref for a
\* Ref, nothing for an immediate. The heap afterwards.
clone_with_heap(v, h) == IF IsRef(v) THEN inc_ref(h, v.id).heap ELSE h
drop_with_heap(v, h) == IF IsRef(v) THEN dec_ref(h, v.id).heap ELSE h

\* Value::py_add: Int + Int is immediate arithmetic, two Refs dispatch to the
\* payloads' py_add, anything else is unsupported.
value_py_add(v, w, h) ==
    IF v.tag = "Int" /\ w.tag = "Int" THEN SomeValue(IntValue(v.id + w.id), h)
    ELSE IF IsRef(v) /\ IsRef(w)
    THEN LET a == get(h, v.id, "get")
             b == get(h, w.id, "get")
         IN  IF a.panic # "" THEN PanicValue(h, a.panic)
             ELSE IF b.panic # "" THEN PanicValue(h, b.panic)
             ELSE py_add(a.data, b.data, h)
    ELSE NoValue(h)

(* ------------------------------ builtins ------------------------------ *)

\* RunResult<Value> of a builtin with the heap it leaves, the items it pulled
\* from its iterator and the arguments it called its predicate with:
\* [heap, value, exc, msg, pulled, calls]; exc = "" for Ok.
OkValue(h, v, pulled, calls) ==
    [heap |-> h, value |-> v, exc |-> "", msg |-> "", pulled |-> pulled, calls |-> calls]
Raise(h, exc, msg, pulled, calls) ==
    [heap |-> h, value |-> NoneValue, exc |-> exc, msg |-> msg, pulled |-> pulled, calls |-> calls]

\* The optional second argument when the caller gave none.
NoStart == [tag |-> "Absent", id |-> 0]

\* ExcType::binary_type_error
binary_type_error(op, lhs_type, rhs_type) ==
    "unsupported operand type(s) for " \o op \o ": '" \o lhs_type \o "' and '" \o rhs_type \o "'"

\* MontyIter::new: a list or tuple iterates over its items; an Int, Bool, None
\* or function is not iterable. Callers here pass no str, bytes or dict as
\* the iterable (ListOrImmediate). [ok, items, msg]
MontyIter_new(iterable, h) ==
    IF IsRef(iterable) /\ slot(h, iterable.id).data.kind \in {"List", "Tuple"}
    THEN [ok |-> TRUE, items |-> slot(h, iterable.id).data.items, msg |-> ""]
    ELSE [ok |-> FALSE, items |-> <<>>,
          msg |-> "'" \o py_type(iterable, h) \o "' object is not iterable"]

\* The `while let Some(item) = iter.for_next(..)` loop of sum: for_next hands
\* out a clone of the next item, which is dropped at the end of the turn; the
\* accumulator is replaced by accumulator + item and the old one dropped.
RECURSIVE sum_loop(_, _, _, _)
sum_loop(items, accumulator, h, pulled) ==
    IF items = <<>> THEN OkValue(h, accumulator, pulled, <<>>)
    ELSE LET item == Head(items)
             h1 == clone_with_heap(item, h)
             r == value_py_add(accumulator, item, h1)
         IN  IF r.some
             THEN sum_loop(Tail(items), r.value,
                           drop_with_heap(item, drop_with_heap(accumulator, r.heap)),
                           pulled + 1)
             ELSE Raise(drop_with_heap(accumulator, drop_with_heap(item, r.heap)),
                        "TypeError",
                        binary_type_error("+", py_type(accumulator, h1), py_type(item, h1)),
                        pulled + 1, <<>>)

\* sum() rejecting strings wherever they come from: as the start or as the
\* first item.
builtin_sum_rejects_str_items(iterable, start, h) ==
    LET iter == MontyIter_new(iterable, h) IN
    IF ~iter.ok
    THEN Raise(drop_with_heap(iterable, drop_with_heap(start, h)), "TypeError", iter.msg, 0, <<>>)
    ELSE IF \/ start.tag # "Absent" /\ py_type(start, h) = "str"
            \/ iter.items # <<>> /\ py_type(Head(iter.items), h) = "str"
    THEN Raise(drop_with_heap(iterable, drop_with_heap(start, h)), "TypeError",
               "sum() can't sum strings [use ''.join(seq) instead]", 0, <<>>)
    ELSE LET accumulator == IF start.tag = "Absent" THEN IntValue(0) ELSE start
             r == sum_loop(iter.items, accumulator, h, 0)
         IN  [r EXCEPT !.heap = drop_with_heap(iterable, @)]

\* sum() starting from 1 when no start is given.
builtin_sum_from_one(iterable, start, h) ==
    LET iter == MontyIter_new(iterable, h) IN
    IF ~iter.ok
    THEN Raise(drop_with_heap(iterable, drop_with_heap(start, h)), "TypeError", iter.msg, 0, <<>>)
    ELSE IF start.tag # "Absent" /\ py_type(start, h) = "str"
    THEN Raise(drop_with_heap(iterable, drop_with_heap(start, h)), "TypeError",
               "sum() can't sum strings [use ''.join(seq) instead]", 0, <<>>)
    ELSE LET accumulator == IF start.tag = "Absent" THEN IntValue(1) ELSE start
             r == sum_loop(iter.items, accumulator, h, 0)
         IN  [r EXCEPT !.heap = drop_with_heap(iterable, @)]

\* builtin_sum: the arguments are owned by the call and dropped by it; the
\* accumulator is returned to the caller.
builtin_sum(iterable, start, h) ==
    LET iter == MontyIter_new(iterable, h) IN
    IF ~iter.ok
    THEN Raise(drop_with_heap(iterable, drop_with_heap(start, h)), "TypeError", iter.msg, 0, <<>>)
    ELSE IF start.tag # "Absent" /\ py_type(start, h) = "str"
    THEN Raise(drop_with_heap(iterable, drop_with_heap(start, h)), "TypeError",
               "sum() can't sum strings [use ''.join(seq) instead]", 0, <<>>)
    ELSE LET accumulator == IF start.tag = "Absent" THEN IntValue(0) ELSE start
             r == sum_loop(iter.items, accumulator, h, 0)
         IN  [r EXCEPT !.heap = drop_with_heap(iterable, @)]

\* any() that looks at every item before it answers.
RECURSIVE any_loop_exhaustive(_, _, _)
any_loop_exhaustive(items, h, pulled) ==
    IF items = <<>> THEN OkValue(h, BoolValue(FALSE), pulled, <<>>)
    ELSE LET item == Head(items)
             h1 == clone_with_heap(item, h)
             rest == any_loop_exhaustive(Tail(items), drop_with_heap(item, h1), pulled + 1)
         IN  IF py_bool(item, h1) THEN [rest EXCEPT !.value = BoolValue(TRUE)] ELSE rest

\* The loop of any: returns True at the first truthy item.
RECURSIVE any_loop(_, _, _)
any_loop(items, h, pulled) ==
    IF items = <<>> THEN OkValue(h, BoolValue(FALSE), pulled, <<>>)
    ELSE LET item == Head(items)
             h1 == clone_with_heap(item, h)
         IN  IF py_bool(item, h1)
             THEN OkValue(drop_with_heap(item, h1), BoolValue(TRUE), pulled + 1, <<>>)
             ELSE any_loop(Tail(items), drop_with_heap(item, h1), pulled + 1)

\* builtin_any
builtin_any(iterable, h) ==
    LET iter == MontyIter_new(iterable, h) IN
    IF ~iter.ok THEN Raise(drop_with_heap(iterable, h), "TypeError", iter.msg, 0, <<>>)
    ELSE LET r == any_loop(iter.items, h, 0) IN
         [r EXCEPT !.heap = drop_with_heap(iterable, @)]

\* The user functions handed to filter: 0 is `lambda x: x`, 1 is
\* `lambda x: x is None`, 2 is `lambda x: x + 1`.
Functions == 0 .. 2

\* vm.evaluate_function(name, function, ArgValues::One(arg)): the argument is
\* consumed, the result is owned by the caller. [heap, value, exc, msg]
evaluate_function(function, arg, h) ==
    IF function.id = 0 THEN [heap |-> h, value |-> arg, exc |-> "", msg |-> ""]
    ELSE IF function.id = 1
    THEN [heap |-> drop_with_heap(arg, h), value |-> BoolValue(arg = NoneValue),
          exc |-> "", msg |-> ""]
    ELSE IF arg.tag = "Int"
    THEN [heap |-> h, value |-> IntValue(arg.id + 1), exc |-> "", msg |-> ""]
    ELSE [heap |-> drop_with_heap(arg, h), value |-> NoneValue, exc |-> "TypeError",
          msg |-> binary_type_error("+", py_type(arg, h), "int")]

\* Dropping the Vec<Value> a HeapGuard holds.
RECURSIVE drop_all(_, _)
drop_all(values, h) ==
    IF values = <<>> THEN h ELSE drop_all(Tail(values), drop_with_heap(Head(values), h))

\* filter deciding by the truthiness of the item where it should look at the
\* predicate's result.
RECURSIVE filter_loop_item_truthiness(_, _, _, _, _)
filter_loop_item_truthiness(items, function, h, out, calls) ==
    IF items = <<>> THEN [heap |-> h, out |-> out, exc |-> "", msg |-> "", calls |-> calls]
    ELSE LET item == Head(items)
             h1 == clone_with_heap(item, h)
         IN  IF function.tag = "None"
             THEN IF py_bool(item, h1)
                  THEN filter_loop_item_truthiness(Tail(items), function, h1, Append(out, item), calls)
                  ELSE filter_loop_item_truthiness(Tail(items), function, drop_with_heap(item, h1), out, calls)
             ELSE LET result == evaluate_function(function, item, clone_with_heap(item, h1))
                      h2 == drop_with_heap(result.value, result.heap)
                  IN  IF result.exc # ""
                      THEN [heap |-> drop_all(out, drop_with_heap(item, result.heap)), out |-> <<>>,
                            exc |-> result.exc, msg |-> result.msg, calls |-> Append(calls, item)]
                      ELSE IF py_bool(item, result.heap)
                      THEN filter_loop_item_truthiness(Tail(items), function, h2, Append(out, item),
                                                       Append(calls, item))
                      ELSE filter_loop_item_truthiness(Tail(items), function, drop_with_heap(item, h2), out,
                                                       Append(calls, item))

\* The loop of filter: each item is kept (moved into out) when it is truthy
\* (no predicate) or when the predicate's result for a clone of it is truthy,
\* and dropped otherwise; an exception of the predicate ends the call and
\* drops what was collected. [heap, out, exc, msg, calls]
RECURSIVE filter_loop(_, _, _, _, _)
filter_loop(items, function, h, out, calls) ==
    IF items = <<>> THEN [heap |-> h, out |-> out, exc |-> "", msg |-> "", calls |-> calls]
    ELSE LET item == Head(items)
             h1 == clone_with_heap(item, h)
         IN  IF function.tag = "None"
             THEN IF py_bool(item, h1)
                  THEN filter_loop(Tail(items), function, h1, Append(out, item), calls)
                  ELSE filter_loop(Tail(items), function, drop_with_heap(item, h1), out, calls)
             ELSE LET result == evaluate_function(function, item, clone_with_heap(item, h1))
                      h2 == drop_with_heap(result.value, result.heap)
                  IN  IF result.exc # ""
                      THEN [heap |-> drop_all(out, drop_with_heap(item, result.heap)), out |-> <<>>,
                            exc |-> result.exc, msg |-> result.msg, calls |-> Append(calls, item)]
                      ELSE IF py_bool(result.value, result.heap)
                      THEN filter_loop(Tail(items), function, h2, Append(out, item),
                                       Append(calls, item))
                      ELSE filter_loop(Tail(items), function, drop_with_heap(item, h2), out,
                                       Append(calls, item))

\* builtin_filter: the kept items go into a newly allocated list.
builtin_filter(function, iterable, h) ==
    LET iter == MontyIter_new(iterable, h) IN
    IF ~iter.ok THEN Raise(drop_with_heap(iterable, h), "TypeError", iter.msg, 0, <<>>)
    ELSE LET r == filter_loop(iter.items, function, h, <<>>, <<>>) IN
         IF r.exc # ""
         THEN Raise(drop_with_heap(iterable, r.heap), r.exc, r.msg, Len(r.calls), r.calls)
         ELSE LET a == allocate(r.heap, List(r.out)) IN
              OkValue(drop_with_heap(iterable, a.heap), Ref(a.id), Len(iter.items), r.calls)

\* Value::Builtin(b): 0 is the builtin any, 1 is the builtin sum.
BuiltinValue(b) == [tag |-> "Builtin", id |-> b]

\* builtin.call(heap, args, ..): the arguments are owned by the call; any
\* takes one argument, sum one or two. The builtin's result: [heap, value,
\* exc, msg, ..]
builtin_call(b, args, h) ==
    IF b.id = 0 /\ Len(args) = 1 THEN builtin_any(args[1], h)
    ELSE IF b.id = 1 /\ Len(args) = 1 THEN builtin_sum(args[1], NoStart, h)
    ELSE IF b.id = 1 /\ Len(args) = 2 THEN builtin_sum(args[1], args[2], h)
    ELSE Raise(drop_all(args, h), "TypeError",
               (IF b.id = 0 THEN "any" ELSE "sum") \o "() got " \o ToString(Len(args))
                   \o " arguments", 0, <<>>)

\* One round of map that keeps the references of the items it pulled when a
\* later iterator cuts the round short.
RECURSIVE pull_round_keeps_pulled(_, _, _)
pull_round_keeps_pulled(iters, h, items) ==
    IF iters = <<>> THEN [heap |-> h, items |-> items, exhausted |-> FALSE]
    ELSE IF Head(iters) = <<>>
    THEN [heap |-> h, items |-> items, exhausted |-> TRUE]
    ELSE pull_round_keeps_pulled(Tail(iters), clone_with_heap(Head(Head(iters)), h),
                                 Append(items, Head(Head(iters))))

\* One round of map: for_next on the first iterator, then on each extra one
\* in argument order; the first iterator that is exhausted ends the round and
\* the items already pulled in it are dropped. iters holds what each iterator
\* has left. [heap, items, exhausted]
RECURSIVE pull_round(_, _, _)
pull_round(iters, h, items) ==
    IF iters = <<>> THEN [heap |-> h, items |-> items, exhausted |-> FALSE]
    ELSE IF Head(iters) = <<>>
    THEN [heap |-> drop_all(items, h), items |-> items, exhausted |-> TRUE]
    ELSE pull_round(Tail(iters), clone_with_heap(Head(Head(iters)), h),
                    Append(items, Head(Head(iters))))

\* The loops of map (one, two or more iterators): each full round's items are
\* moved into a call of the builtin and its result is pushed onto out. out is
\* a plain Vec: when a call returns an error the `?` returns at once and the
\* results collected so far are forgotten with their references still
\* counted. [heap, out, exc, msg, calls, dropped]
RECURSIVE map_loop(_, _, _, _, _)
RECURSIVE map_loop_round(_, _, _, _, _)
RECURSIVE map_loop_push(_, _, _, _, _, _)
map_loop(iters, builtin, h, out, calls) ==
    map_loop_round(iters, builtin, out, calls, pull_round(iters, h, <<>>))

\* The body of the loop after a round of for_next calls: the call of the
\* builtin with the round's items, unless an iterator was exhausted.
map_loop_round(iters, builtin, out, calls, round) ==
    IF round.exhausted
    THEN [heap |-> round.heap, out |-> out, exc |-> "", msg |-> "", calls |-> calls,
          dropped |-> round.items]
    ELSE map_loop_push(iters, builtin, out, calls, round.items,
                       builtin_call(builtin, round.items, round.heap))

\* out.push(builtin.call(..)?): the error returns, the value is pushed and
\* the loop goes on.
map_loop_push(iters, builtin, out, calls, items, result) ==
    IF result.exc # ""
    THEN [heap |-> result.heap, out |-> out, exc |-> result.exc, msg |-> result.msg,
          calls |-> Append(calls, items), dropped |-> <<>>]
    ELSE map_loop([i \in 1 .. Len(iters) |-> Tail(iters[i])], builtin, result.heap,
                  Append(out, result.value), Append(calls, items))

\* The first of the iterables MontyIter::new refuses, 0 when there is none.
RECURSIVE first_not_iterable(_, _, _)
first_not_iterable(iterables, h, at) ==
    IF at > Len(iterables) THEN 0
    ELSE IF MontyIter_new(iterables[at], h).ok THEN first_not_iterable(iterables, h, at + 1)
    ELSE at

\* heap.allocate(HeapData::List(List::new(out))) as the value of a call.
allocate_list_value(a, out, calls) == OkValue(a.heap, Ref(a.id), Len(out), calls)
allocate_list(h, out, calls) == allocate_list_value(allocate(h, List(out)), out, calls)

\* The end of builtin_map: the iterators are dropped, and the results go
\* into a newly allocated list unless the loop returned an error.
map_collect(iterables, r) ==
    IF r.exc # ""
    THEN Raise(drop_all(iterables, r.heap), r.exc, r.msg, Len(r.out), r.calls)
    ELSE allocate_list(drop_all(iterables, r.heap), r.out, r.calls)

\* builtin_map: positional is the function followed by the iterables, all
\* owned by the call and dropped by it; the results go into a newly
\* allocated list. pulled is the number of results collected and calls the
\* argument lists the function was called with.
builtin_map(positional, h) ==
    IF Len(positional) < 2
    THEN Raise(drop_all(positional, h), "TypeError", "map() must have at least two arguments.",
               0, <<>>)
    ELSE LET function == Head(positional)
             iterables == Tail(positional)
             bad == first_not_iterable(iterables, h, 1)
         IN  IF function.tag # "Builtin"
             THEN Raise(drop_all(positional, h), "TypeError",
                        "'" \o py_type(function, h) \o "' object is not callable", 0, <<>>)
             ELSE IF bad # 0
             THEN Raise(drop_all(iterables, h), "TypeError",
                        MontyIter_new(iterables[bad], h).msg, 0, <<>>)
             ELSE map_collect(iterables,
                              map_loop([i \in 1 .. Len(iterables) |->
                                            MontyIter_new(iterables[i], h).items],
                                       function, h, <<>>, <<>>))

(* ----------------------- augmented assignment ------------------------- *)

\* HeapData::py_iadd on a Str / Bytes target with a whole Value: the other
\* operand's bytes are appended in place when the target's refcount is 1,
\* else the call reports failure and leaves the payload alone. [data, done]
py_iadd(data, other, h, self_id) ==
    IF /\ data.kind \in {"Str", "Bytes"}
       /\ IsRef(other) /\ HasData(h, other.id)
       /\ slot(h, other.id).data.kind = data.kind
       /\ get_refcount(h, self_id).refcount = 1
    THEN [data |-> [data EXCEPT !.bytes = @ \o slot(h, other.id).data.bytes], done |-> TRUE]
    ELSE [data |-> data, done |-> FALSE]

\* `x += y` for a Ref target: with_entry_mut(x, |heap, data| data.py_iadd(y,
\* heap, Some(x))); when py_iadd reports failure the caller falls back to
\* x + y, binds the result to x and drops the old x.
\* [heap, value, exc, msg, in_place, panic]
aug_assign_add(x, y, h) ==
    LET t == with_entry_mut_take(h, x.id) IN
    IF t.panic # ""
    THEN [heap |-> t.heap, value |-> x, exc |-> "", msg |-> "", in_place |-> FALSE, panic |-> t.panic]
    ELSE LET r == py_iadd(t.data, y, t.heap, x.id)
             back == with_entry_mut_restore(t.heap, x.id, r.data)
         IN  IF r.done
             THEN [heap |-> back.heap, value |-> x, exc |-> "", msg |-> "",
                   in_place |-> TRUE, panic |-> back.panic]
             ELSE LET sum == value_py_add(x, y, back.heap) IN
                  IF sum.panic # ""
                  THEN [heap |-> sum.heap, value |-> x, exc |-> "", msg |-> "",
                        in_place |-> FALSE, panic |-> sum.panic]
                  ELSE IF sum.some
                  THEN [heap |-> drop_with_heap(x, sum.heap), value |-> sum.value, exc |-> "",
                        msg |-> "", in_place |-> FALSE, panic |-> ""]
                  ELSE [heap |-> sum.heap, value |-> x, exc |-> "TypeError",
                        msg |-> binary_type_error("+=", py_type(x, sum.heap), py_type(y, sum.heap)),
                        in_place |-> FALSE, panic |-> ""]

\* `for i in range(k): v += y`: the loop of for_loop_str_append. [heap, value]
RECURSIVE repeat_aug_assign(_, _, _, _)
repeat_aug_assign(v, y, h, k) ==
    IF k = 0 THEN [heap |-> h, value |-> v]
    ELSE LET r == aug_assign_add(v, y, h) IN repeat_aug_assign(r.value, y, r.heap, k - 1)

(* ---------------------------- expressions ----------------------------- *)

\* Object::Int / Object::Str of a constant or a name's value.
ObjectInt(n) == [type |-> "int", n |-> n, s |-> ""]
ObjectStr(s) == [type |-> "str", n |-> 0, s |-> s]

\* How an operand prints in an evaluation error: 1, "1".
object_repr(o) == IF o.type = "int" THEN ToString(o.n) ELSE "\"" \o o.s \o "\""

\* CodeRange on line 1: columns [start, end).
CodeRange(start, end) == [start |-> start, end |-> end]
\* CodeRange::extend: from the start of the left range to the end of the right.
extend(left, right) == CodeRange(left.start, right.end)
\* "(1:0 - 1:7)"
position_str(p) == "(1:" \o ToString(p.start) \o " - 1:" \o ToString(p.end) \o ")"

\* ExprLoc: an operand with its place; is_const is false for a name.
ExprLoc(object, is_const, position) ==
    [object |-> object, is_const |-> is_const, position |-> position]

\* Exception::operand_type_error: [exc, msg, position]
operand_type_error(left, op, right, left_object, right_object) ==
    [exc |-> "TypeError",
     msg |-> "unsupported operand type(s) for " \o op \o ": '" \o left_object.type
             \o "' and '" \o right_object.type \o "'",
     position |-> extend(left.position, right.position)]

\* Whether the operands of `left + right` support it, and the result.
add_objects(a, b) ==
    IF a.type = "int" /\ b.type = "int" THEN [ok |-> TRUE, object |-> ObjectInt(a.n + b.n)]
    ELSE IF a.type = "str" /\ b.type = "str" THEN [ok |-> TRUE, object |-> ObjectStr(a.s \o b.s)]
    ELSE [ok |-> FALSE, object |-> ObjectInt(0)]

\* Evaluator::can_be_const: no operand is a name.
can_be_const(left, right) == left.is_const /\ right.is_const

\* Evaluator::evaluate on `left + right` while preparing: the error is text.
\* [ok, object, err]
evaluate_const(left, right) ==
    LET r == add_objects(left.object, right.object) IN
    IF r.ok THEN [ok |-> TRUE, object |-> r.object, err |-> ""]
    ELSE [ok |-> FALSE, object |-> r.object,
          err |-> position_str(extend(left.position, right.position))
                  \o " Cannot apply operator " \o object_repr(left.object)
                  \o " + " \o object_repr(right.object)]

\* What running the source `left + right` gives: [object, exc, msg, position]
Outcome(object, exc, msg, position) ==
    [object |-> object, exc |-> exc, msg |-> msg, position |-> position]

\* Prepare::prepare_expression followed by the run: an expression that can be
\* constant is evaluated while preparing, and an error of that evaluation is
\* the prepare error ParseError::PreEval; otherwise the operator is applied
\* at run time, where unsupported operands raise operand_type_error.
run_add(left, right) ==
    IF can_be_const(left, right)
    THEN LET c == evaluate_const(left, right) IN
         IF c.ok THEN Outcome(c.object, "", "", extend(left.position, right.position))
         ELSE Outcome(c.object, "ParseError::PreEval", c.err, extend(left.position, right.position))
    ELSE LET r == add_objects(left.object, right.object) IN
         IF r.ok THEN Outcome(r.object, "", "", extend(left.position, right.position))
         ELSE LET e == operand_type_error(left, "+", right, left.object, right.object) IN
              Outcome(r.object, e.exc, e.msg, e.position)

(* ------------------------- the evaluator's calls ---------------------- *)

\* The Values a program hands to builtins, and the ones it stores in lists:
\* a truthy Int, the falsy None and a Ref to the first entry.
EvalValues == {IntValue(1), NoneValue} \cup {Ref(i) : i \in Ids}
EvalItems == {IntValue(1), NoneValue, Ref(0)}
EvalItemSeqs == UNION {[1 .. k -> EvalItems] : k \in 0 .. MaxItems}
\* What the program allocates: strings, lists of Values and the empty tuple.
EvalPayloads ==
    {Str(b) : b \in ByteSeqs} \cup {List(v) : v \in EvalItemSeqs}
    \cup {Tuple(<<>>)}

\* A Ref argument is a live entry the caller holds; the builtins here iterate
\* lists and tuples.
CallerHolds(v) == IsRef(v) => (HasData(heap, v.id) /\ roots[v.id] > 0)
ListOrImmediate(v) == IsRef(v) => slot(heap, v.id).data.kind \in {"List", "Tuple"}

\* The heaps the bounded program stays within.
WithinBounds(h) ==
    /\ Len(h.entries) <= MaxSlots + 1
    /\ \A i \in 1 .. Len(h.entries) :
           h.entries[i].some =>
               /\ h.entries[i].refcount <= MaxRefcount + 1
               /\ Len(h.entries[i].data.items) <= MaxItems
               /\ Len(h.entries[i].data.bytes) <= MaxStrLen + 1

\* What a call returned: [op, args, value, exc, msg, pulled, calls]
EvalRet(op, args, r) ==
    [op |-> op, args |-> args, value |-> r.value, exc |-> r.exc, msg |-> r.msg,
     pulled |-> r.pulled, calls |-> r.calls]

\* The caller keeps a returned Ref.
Returned(r) ==
    IF r.exc = "" /\ IsRef(r.value) THEN [roots EXCEPT ![r.value.id] = @ + 1] ELSE roots

\* sum(iterable) / sum(iterable, start): the caller passes clones of its Values.
CallSum(iterable, start) ==
    /\ Running /\ UNCHANGED io /\ frames = <<>>
    /\ CallerHolds(iterable) /\ CallerHolds(start) /\ ListOrImmediate(iterable)
    /\ LET r == builtin_sum(iterable, start, clone_with_heap(start, clone_with_heap(iterable, heap)))
       IN  /\ WithinBounds(r.heap)
           /\ heap' = r.heap
           /\ roots' = Returned(r)
           /\ ret' = EvalRet("sum", <<iterable, start>>, r)
           /\ peak' = Max(peak, entry_count(r.heap))
           /\ UNCHANGED <<frames, halt>>

\* any(iterable)
CallAny(iterable) ==
    /\ Running /\ UNCHANGED io /\ frames = <<>>
    /\ CallerHolds(iterable) /\ ListOrImmediate(iterable)
    /\ LET r == builtin_any(iterable, clone_with_heap(iterable, heap))
       IN  /\ heap' = r.heap
           /\ ret' = EvalRet("any", <<iterable>>, r)
           /\ UNCHANGED <<roots, frames, halt, peak>>

\* filter(function, iterable)
CallFilter(function, iterable) ==
    /\ Running /\ UNCHANGED io /\ frames = <<>>
    /\ CallerHolds(iterable) /\ ListOrImmediate(iterable)
    /\ LET r == builtin_filter(function, iterable, clone_with_heap(iterable, heap))
       IN  /\ WithinBounds(r.heap)
           /\ heap' = r.heap
           /\ roots' = Returned(r)
           /\ ret' = EvalRet("filter", <<function, iterable>>, r)
           /\ peak' = Max(peak, entry_count(r.heap))
           /\ UNCHANGED <<frames, halt>>

\* The call returns r to the caller: the heap is as the builtin left it and
\* the caller keeps the value.
CallReturns(op, args, r) ==
    /\ WithinBounds(r.heap)
    /\ heap' = r.heap
    /\ roots' = Returned(r)
    /\ ret' = EvalRet(op, args, r)
    /\ peak' = Max(peak, entry_count(r.heap))
    /\ UNCHANGED <<frames, halt>>

\* map(function, iterable, ...): positional holds the arguments in order.
CallMap(positional) ==
    /\ Running /\ UNCHANGED io /\ frames = <<>>
    /\ \A i \in 1 .. Len(positional) : CallerHolds(positional[i]) /\ ListOrImmediate(positional[i])
    /\ CallReturns("map", positional,
                   builtin_map(positional, inc_ref_all(heap, ref_ids(positional)).heap))

\* A binary operator on two heap entries the caller holds, dispatched to
\* HeapData: ==, +, -, % and the fused (a % b) == right_value.
BinaryOp(op, a, b) ==
    /\ Running /\ UNCHANGED io /\ frames = <<>>
    /\ CallerHolds(Ref(a)) /\ CallerHolds(Ref(b))
    /\ LET left == slot(heap, a).data
           right == slot(heap, b).data
           r == IF op = "+" THEN py_add(left, right, heap)
                ELSE IF op = "-" THEN py_sub(left, right, heap)
                ELSE py_mod(left, right, heap)
           out == IF op = "==" THEN OkValue(heap, BoolValue(py_eq(left, right, heap).eq), 0, <<>>)
                  ELSE IF op = "%==" /\ py_mod_eq(left, right, 0).some
                  THEN OkValue(heap, BoolValue(py_mod_eq(left, right, 0).eq), 0, <<>>)
                  ELSE IF op # "%==" /\ r.some THEN OkValue(r.heap, r.value, 0, <<>>)
                  ELSE Raise(heap, "TypeError",
                             binary_type_error(op, py_type(Ref(a), heap), py_type(Ref(b), heap)),
                             0, <<>>)
       IN  /\ WithinBounds(out.heap)
           /\ heap' = out.heap
           /\ roots' = Returned(out)
           /\ ret' = EvalRet(op, <<Ref(a), Ref(b)>>, out)
           /\ peak' = Max(peak, entry_count(out.heap))
           /\ UNCHANGED <<frames, halt>>

\* x += y on two different strings the caller holds; x is rebound to the result.
AugAssignAdd(x, y) ==
    /\ Running /\ UNCHANGED io /\ frames = <<>>
    /\ x # y /\ CallerHolds(Ref(x)) /\ CallerHolds(Ref(y))
    /\ slot(heap, x).data.kind = "Str" /\ slot(heap, y).data.kind = "Str"
    /\ LET r == aug_assign_add(Ref(x), Ref(y), heap)
       IN  /\ r.panic = ""
           /\ WithinBounds(r.heap)
           /\ heap' = r.heap
           /\ roots' = IF r.in_place THEN roots
                       ELSE [roots EXCEPT ![x] = @ - 1, ![r.value.id] = @ + 1]
           /\ ret' = [op |-> "+=", args |-> <<Ref(x), Ref(y)>>, value |-> r.value, exc |-> r.exc,
                      msg |-> r.msg, pulled |-> 0, calls |-> <<>>, in_place |-> r.in_place]
           /\ peak' = Max(peak, entry_count(r.heap))
           /\ UNCHANGED <<frames, halt>>

\* The operands of a source line `left + right`: the constants 1 and '1', and
\* names bound to them. Columns follow from the operands' widths.
SourceOperands ==
    {[object |-> ObjectInt(1), is_const |-> TRUE, width |-> 1],
     [object |-> ObjectStr("1"), is_const |-> TRUE, width |-> 3],
     [object |-> ObjectInt(1), is_const |-> FALSE, width |-> 1],
     [object |-> ObjectStr("1"), is_const |-> FALSE, width |-> 1]}
LeftExpr(l) == ExprLoc(l.object, l.is_const, CodeRange(0, l.width))
RightExpr(l, r) == ExprLoc(r.object, r.is_const, CodeRange(l.width + 3, l.width + 3 + r.width))

\* Parsing, preparing and running the source `left + right` on a new heap.
Run(l, r) ==
    /\ Running /\ UNCHANGED io /\ frames = <<>> /\ heap = new
    /\ LET out == run_add(LeftExpr(l), RightExpr(l, r))
       IN  ret' = [op |-> "run", args |-> <<LeftExpr(l), RightExpr(l, r)>>, object |-> out.object,
                   exc |-> out.exc, msg |-> out.msg, position |-> out.position]
    /\ UNCHANGED <<heap, roots, frames, halt, peak>>

\* One program: it builds its data, then makes one call.
\* An expression statement calling a builtin: the call is evaluated with
\* clones of the caller's Values and the value it returns is dropped, since
\* nothing binds it. function is NoneValue for the calls without one; an
\* exception ends the program and is the business of the call actions.
\* ret = [op, call, args, value, before]
call_builtin(call, function, args, h) ==
    IF call = "sum" THEN builtin_sum(args[1], IF Len(args) = 2 THEN args[2] ELSE NoStart, h)
    ELSE IF call = "any" THEN builtin_any(args[1], h)
    ELSE IF call = "filter" THEN builtin_filter(function, args[1], h)
    ELSE builtin_map(<<function>> \o args, h)

\* The statement is done with the call's result r: the value is dropped.
StatementDrops(call, args, r) ==
    /\ r.exc = ""
    /\ WithinBounds(r.heap)
    /\ heap' = drop_with_heap(r.value, r.heap)
    /\ ret' = [op |-> "statement", call |-> call, args |-> args,
               value |-> r.value, before |-> entry_count(heap)]
    /\ peak' = Max(peak, entry_count(r.heap))
    /\ UNCHANGED <<roots, frames, halt>>

ExprStatement(call, function, args) ==
    /\ Running /\ UNCHANGED io /\ frames = <<>>
    /\ \A i \in 1 .. Len(args) : CallerHolds(args[i]) /\ ListOrImmediate(args[i])
    /\ StatementDrops(call, <<function>> \o args,
                      call_builtin(call, function, args,
                                   inc_ref_all(heap, ref_ids(<<function>> \o args)).heap))

\* The calls written as statements.
StatementCalls ==
    {[call |-> "any", function |-> NoneValue], [call |-> "sum", function |-> NoneValue],
     [call |-> "filter", function |-> NoneValue], [call |-> "filter", function |-> FunctionValue(0)],
     [call |-> "map", function |-> BuiltinValue(0)], [call |-> "map", function |-> BuiltinValue(1)]}
StatementArgs == UNION {[1 .. k -> {Ref(i) : i \in Ids}] : k \in 1 .. 2}

\* The argument lists of the map calls: nothing, or a builtin or a user
\* function followed by up to MaxIterables iterables.
MapFunctions == {BuiltinValue(0), BuiltinValue(1), FunctionValue(0)}
MapIterables == {IntValue(1)} \cup {Ref(i) : i \in Ids}
MapPositionals ==
    {<<>>} \cup {<<function>> \o iterables :
                    function \in MapFunctions,
                    iterables \in UNION {[1 .. k -> MapIterables] : k \in 0 .. MaxIterables}}

NoCallYet == ret.op \in {"", "allocate"}

NextEval ==
    \/ NoCallYet /\ \E data \in EvalPayloads : Allocate(data, TRUE, MaxSlots)
    \/ NoCallYet /\ IncRef(0)
    \/ NoCallYet /\ \E iterable \in EvalValues, start \in EvalValues \cup {NoStart} :
                        CallSum(iterable, start)
    \/ NoCallYet /\ \E iterable \in EvalValues : CallAny(iterable)
    \/ NoCallYet /\ \E function \in {NoneValue} \cup {FunctionValue(k) : k \in Functions},
                        iterable \in EvalValues : CallFilter(function, iterable)
    \/ NoCallYet /\ \E positional \in MapPositionals : CallMap(positional)
    \/ NoCallYet /\ \E c \in StatementCalls, args \in StatementArgs :
                        /\ Len(args) = 2 => c.call \in {"sum", "map"}
                        /\ ExprStatement(c.call, c.function, args)
    \/ NoCallYet /\ \E op \in {"==", "+", "-", "%", "%=="}, a \in Ids, b \in Ids :
                        BinaryOp(op, a, b)
    \/ NoCallYet /\ \E x \in Ids, y \in Ids : AugAssignAdd(x, y)
    \/ NoCallYet /\ \E l \in SourceOperands, r \in SourceOperands : Run(l, r)

\* The evaluator's calls on a heap of strings and lists.
SpecEval == Init /\ [][NextEval]_vars

(* --------------------------- printing runs ---------------------------- *)

\* The writers an embedder passes: one of each mode, and a callback that
\* refuses its calls.
Writers ==
    {PrintWriter(mode, FALSE) : mode \in {"Disabled", "Stdout", "Collect", "Callback"}}
        \cup {PrintWriter("Callback", TRUE)}

InitPrint ==
    /\ heap = new
    /\ roots = NoRoots
    /\ frames = <<>>
    /\ halt = ""
    /\ ret = NoRet
    /\ peak = 0
    /\ writer \in Writers
    /\ run = NoRun

\* The embedder starts a run of the program with its writer and a tracker
\* that has counted nothing: run(.., tracker, &mut writer) borrows the writer
\* and leaves what it holds; the heap of the run before is cleared.
StartRun ==
    /\ run.n < MaxRuns
    /\ run.n > 0 => ret.op # ""
    /\ run' = [run EXCEPT !.n = @ + 1, !.used = 0, !.again = <<>>,
                          !.start = Len(writer.buf),
                          !.first = SubSeq(writer.buf, run.start + 1, Len(writer.buf))]
    /\ halt' = ""
    /\ heap' = clear(heap)
    /\ roots' = NoRoots
    /\ ret' = NoRet
    /\ UNCHANGED <<frames, peak, writer>>

\* A print call of the running program; an error of the writer ends the run.
\* ret = [op, args, sep, end, flush, expanded, err]
PrintCall(args, sep, end, flush, expanded) ==
    /\ Running /\ run.n > 0
    /\ Len(run.log) < MaxWrites
    /\ LET r == builtin_print(args, sep, end, flush, expanded, writer) IN
       /\ writer' = r.writer
       /\ run' = [run EXCEPT !.log = @ \o r.log]
       /\ ret' = [op |-> "print", args |-> args, sep |-> sep, end |-> end, flush |-> flush,
                  expanded |-> expanded, err |-> r.err]
       /\ halt' = IF r.err = "" THEN "" ELSE "MontyException"
       /\ UNCHANGED <<heap, roots, frames, peak>>

\* A direct call of the writer: stdout_write(output) or stdout_push(end).
\* ret = [op, args, err]
WriterCall(op, chars) ==
    /\ Running /\ run.n > 0
    /\ Len(run.log) < MaxWrites
    /\ op = "stdout_push" => Len(chars) = 1
    /\ LET r == IF op = "stdout_push" THEN stdout_push(writer, chars[1])
                ELSE stdout_write(writer, chars)
       IN  /\ writer' = r.writer
           /\ run' = [run EXCEPT !.log = Append(@, chars)]
           /\ ret' = [op |-> op, args |-> <<chars>>, err |-> r.err]
           /\ halt' = IF r.err = "" THEN "" ELSE "MontyException"
           /\ UNCHANGED <<heap, roots, frames, peak>>

\* The arguments of the print calls.
Hello == <<"h", "e", "l", "l", "o">>
PrintObjects == {StrObject(Hello), StrObject(<<"a">>), IntObject(12), NoneObject}
PrintArgs == UNION {[1 .. k -> PrintObjects] : k \in 0 .. MaxPrintArgs}
Seps == {Absent, NoneKw, StrKw(<<"-">>), StrKw(<<>>), StrKw(<<",", " ">>)}
Ends == {Absent, NoneKw, StrKw(<<"!">>), StrKw(<<>>)}

\* The first print of a writer is any call; the later ones are print(x).
NextPrint ==
    \/ StartRun
    \/ (run.log = <<>> /\ ret.op = "") /\
           \E args \in PrintArgs, sep \in Seps, end \in Ends, flush \in BOOLEAN, expanded \in BOOLEAN :
               /\ expanded => (sep # Absent \/ end # Absent \/ flush)
               /\ PrintCall(args, sep, end, flush, expanded)
    \/ (run.log # <<>> \/ ret.op # "") /\ \E x \in PrintObjects : PrintCall(<<x>>, Absent, Absent, FALSE, FALSE)
    \/ \E op \in {"stdout_write", "stdout_push"}, chars \in {<<"a">>, <<>>, <<"a", "b">>} :
           WriterCall(op, chars)

\* Programs that print, run one after the other with the same writer.
SpecPrint == InitPrint /\ [][NextPrint]_vars

(* ------------------------- runs under a tracker ----------------------- *)

\* What a statement showed: the HeapId allocate handed out, the hash
\* get_or_compute_hash returned, the text printed and how the run went on
\* ("" or the error that ended it).
Shown(id, hash, text, result) == [id |-> id, hash |-> hash, text |-> text, result |-> result]

\* LimitedTracker: an allocation is allowed while fewer than
\* max_heap_allocations were counted.
tracker_allows(limit, used) == used < limit

\* One statement of a run on the heap h with the Refs held the locals hold:
\* `x = <literal>` allocates under the tracker, `del x` drops a local,
\* `hash(x)` asks for a hash and `print(x)` prints. A denied allocation ends
\* the run: the frame's Values go, the heap is cleared and the embedder gets
\* the ResourceError. [heap, roots, writer, used, log, shown]
execute(stmt, h, held, w, limit, used) ==
    IF stmt.kind = "alloc"
    THEN LET a == allocate_tracked(h, stmt.data, tracker_allows(limit, used)) IN
         IF a.err # ""
         THEN [heap |-> clear(a.heap), roots |-> NoRoots, writer |-> w, used |-> used,
               log |-> <<>>, shown |-> Shown(0, NoHash, <<>>, a.err)]
         ELSE [heap |-> a.heap, roots |-> [held EXCEPT ![a.id] = @ + 1], writer |-> w,
               used |-> used + 1, log |-> <<>>, shown |-> Shown(a.id, NoHash, <<>>, "")]
    ELSE IF stmt.kind = "drop"
    THEN LET d == dec_ref(h, stmt.id) IN
         [heap |-> d.heap, roots |-> [held EXCEPT ![stmt.id] = IF @ > 0 THEN @ - 1 ELSE 0],
          writer |-> w, used |-> used, log |-> <<>>, shown |-> Shown(0, NoHash, <<>>, d.panic)]
    ELSE IF stmt.kind = "hash"
    THEN LET g == get_or_compute_hash(h, stmt.id) IN
         [heap |-> g.heap, roots |-> held, writer |-> w, used |-> used, log |-> <<>>,
          shown |-> Shown(0, g.hash, <<>>, g.panic)]
    ELSE LET p == builtin_print(<<stmt.object>>, Absent, Absent, FALSE, FALSE, w) IN
         [heap |-> h, roots |-> held, writer |-> p.writer, used |-> used, log |-> p.log,
          shown |-> Shown(0, NoHash, Flatten(p.log), IF p.err = "" THEN "" ELSE "MontyException")]

\* The statements of the programs: [kind, data, id, object]
Statements ==
    {[kind |-> "alloc", data |-> data, id |-> 0, object |-> NoneObject] :
         data \in {Str(<<>>), Str(<<120>>), Tuple(<<>>), List(<<>>)}}
    \cup {[kind |-> kind, data |-> Str(<<>>), id |-> id, object |-> NoneObject] :
              kind \in {"drop", "hash"}, id \in Ids}
    \cup {[kind |-> "print", data |-> Str(<<>>), id |-> 0, object |-> object] :
              object \in {StrObject(<<"a">>), IntObject(12)}}

\* The next statement of the first run. ret = [op, stmt, shown]
Statement(stmt) ==
    /\ Running /\ run.n = 1
    /\ Len(run.program) < MaxStatements
    /\ stmt.kind \in {"drop", "hash"} => (HasData(heap, stmt.id) /\ roots[stmt.id] > 0)
    /\ LET r == execute(stmt, heap, roots, writer, run.limit, run.used) IN
       /\ heap' = r.heap
       /\ roots' = r.roots
       /\ writer' = r.writer
       /\ run' = [run EXCEPT !.used = r.used, !.log = @ \o r.log,
                             !.program = Append(@, stmt), !.seen = Append(@, r.shown)]
       /\ ret' = [op |-> "step", stmt |-> stmt, shown |-> r.shown]
       /\ halt' = r.shown.result
       /\ UNCHANGED <<frames, peak>>

\* The second run executes the statements of the first, in order.
Replay ==
    /\ Running /\ run.n = 2
    /\ Len(run.again) < Len(run.program)
    /\ LET stmt == run.program[Len(run.again) + 1]
           r == execute(stmt, heap, roots, writer, run.limit, run.used)
       IN  /\ heap' = r.heap
           /\ roots' = r.roots
           /\ writer' = r.writer
           /\ run' = [run EXCEPT !.used = r.used, !.log = @ \o r.log, !.again = Append(@, r.shown)]
           /\ ret' = [op |-> "step", stmt |-> stmt, shown |-> r.shown]
           /\ halt' = r.shown.result
           /\ UNCHANGED <<frames, peak>>

\* An embedder with a Collect writer and a tracker of some limit.
InitRun ==
    /\ heap = new
    /\ roots = NoRoots
    /\ frames = <<>>
    /\ halt = ""
    /\ ret = NoRet
    /\ peak = 0
    /\ writer = PrintWriter("Collect", FALSE)
    /\ \E limit \in 0 .. MaxStatements : run = [NoRun EXCEPT !.limit = limit]

NextRun ==
    \/ StartRun
    \/ \E stmt \in Statements : Statement(stmt)
    \/ Replay

\* A program run twice under the same tracker setting.
SpecRun == InitRun /\ [][NextRun]_vars

(* ----------------------------- exceptions ----------------------------- *)

\* ExcType
ExcTypes == {"ValueError", "TypeError", "NameError", "AttributeError"}

\* Display of an Object that is an exception's argument: a str as its text,
\* an int in decimal.
object_display(o) == IF o.type = "int" THEN ToString(o.n) ELSE o.s

\* The `for arg in args_iter` loop of Display for Exception.
RECURSIVE write_more_args(_)
write_more_args(args) ==
    IF args = <<>> THEN "" ELSE ", " \o object_display(Head(args)) \o write_more_args(Tail(args))

\* Display for Exception that writes a single argument as a tuple too.
exception_display_always_tuple(args) ==
    IF Len(args) >= 1
    THEN "(" \o object_display(args[1]) \o write_more_args(Tail(args)) \o ")"
    ELSE ""

\* Display for Exception: nothing without arguments, the argument alone when
\* there is one, a tuple when there are more.
exception_display(args) ==
    IF Len(args) >= 1
    THEN IF Len(args) >= 2
         THEN "(" \o object_display(args[1]) \o ", " \o object_display(args[2])
                  \o write_more_args(SubSeq(args, 3, Len(args))) \o ")"
         ELSE object_display(args[1])
    ELSE ""

\* Exception::str_with_type
str_with_type(exc) == exc.exc_type \o ": " \o exception_display(exc.args)

\* StackFrame { position, frame_name, parent }: parent is <<>> or holds one
\* frame; frame_name is "" for None.
StackFrame_new(position, frame_name, parent) ==
    [position |-> position, frame_name |-> frame_name, parent |-> parent]

\* CodeRange::traceback: the lines of one frame.
traceback(position, frame_name) ==
    "  File \"main.py\", " \o position_str(position)
        \o (IF frame_name = "" THEN "" ELSE ", in " \o frame_name) \o "\n"

\* Display for StackFrame writing the frame before its parent.
RECURSIVE stack_frame_display_child_first(_)
stack_frame_display_child_first(frame) ==
    traceback(frame.position, frame.frame_name)
        \o (IF frame.parent # <<>> THEN stack_frame_display_child_first(frame.parent[1]) ELSE "")

\* Display for StackFrame: the parent chain, then this frame.
RECURSIVE stack_frame_display(_)
stack_frame_display(frame) ==
    (IF frame.parent # <<>> THEN stack_frame_display(frame.parent[1]) ELSE "")
        \o traceback(frame.position, frame.frame_name)

\* Display for ExceptionRaise { exc, frame }: frame is <<>> or holds the
\* raise site's frame.
exception_raise_display(raise) ==
    (IF raise.frame # <<>>
     THEN "Traceback (most recent call last):\n" \o stack_frame_display(raise.frame[1])
     ELSE "")
        \o str_with_type(raise.exc)

\* The frame of the raise site under the calls that lead to it (outermost
\* first): each call's frame has the frame of its caller as parent.
RECURSIVE frame_chain(_, _)
frame_chain(calls, parent) ==
    IF calls = <<>> THEN parent
    ELSE frame_chain(Tail(calls),
                     <<StackFrame_new(Head(calls).position, Head(calls).frame_name, parent)>>)

\* An exception of the running program reaches the embedder: without a
\* frame (From<Exception>), or with the frame of the raise site, named or
\* not (with_position), under the frames of the calls around it.
\* ret = [op, exc, calls, display]
RaiseException(exc_type, args, calls) ==
    /\ Running /\ UNCHANGED io
    /\ LET exc == [exc_type |-> exc_type, args |-> args]
           raise == [exc |-> exc, frame |-> frame_chain(calls, <<>>)]
       IN  /\ ret' = [op |-> "raise", exc |-> exc, calls |-> calls,
                      display |-> exception_raise_display(raise)]
           /\ halt' = "MontyException"
           /\ UNCHANGED <<heap, roots, frames, peak>>

\* The arguments of the exceptions and the calls around a raise site.
ExcArgs == UNION {[1 .. k -> {ObjectStr("no"), ObjectInt(7)}] : k \in 0 .. MaxExcArgs}
Sites == {[position |-> CodeRange(0, 3), frame_name |-> "<module>"],
          [position |-> CodeRange(4, 9), frame_name |-> "f"],
          [position |-> CodeRange(2, 5), frame_name |-> ""]}
Calls == UNION {[1 .. k -> Sites] : k \in 1 .. MaxFrames}

NextRaise ==
    \/ \E exc_type \in ExcTypes, args \in ExcArgs : RaiseException(exc_type, args, <<>>)
    \/ \E exc_type \in ExcTypes, args \in ExcArgs, calls \in Calls :
           RaiseException(exc_type, args, calls)

\* Programs that end with an exception.
SpecRaise == Init /\ [][NextRaise]_vars

(* ------------------------------- prepare ------------------------------ *)

\* Expr<String, String> as the parser gives it and Expr<usize, Builtins> as
\* prepare returns it: a Name holds the name before and the index after.
Constant(n) == [e |-> "Constant", n |-> n]
Name(name) == [e |-> "Name", name |-> name]
NameId(id) == [e |-> "Name", id |-> id]
Op(left, right) == [e |-> "Op", left |-> left, right |-> right]

\* Node: Pass, Expr, Assign and OpAssign with the target's name or index,
\* For and If with their bodies.
Pass == [node |-> "Pass"]
ExprNode(expr) == [node |-> "Expr", expr |-> expr]
Assign(target, object) == [node |-> "Assign", target |-> target, object |-> object]
OpAssign(target, object) == [node |-> "OpAssign", target |-> target, object |-> object]
For(target, iter, body, or_else) ==
    [node |-> "For", target |-> target, iter |-> iter, body |-> body, or_else |-> or_else]
If(test, body, or_else) == [node |-> "If", test |-> test, body |-> body, or_else |-> or_else]

\* The names a program and its inputs are written with.
NameSet == {"a", "b", "c"}

\* name_map: AHashMap<String, usize>, NoIndex for a name without an entry.
NoIndex == 0 - 1
Undefined == "Undefined"
map_len(name_map) == Cardinality({n \in NameSet : name_map[n] # NoIndex})

\* The loop of Prepare::new: insert(name, index) replaces the entry a name
\* already has.
RECURSIVE insert_inputs(_, _, _)
insert_inputs(name_map, input_names, index) ==
    IF index >= Len(input_names) THEN name_map
    ELSE insert_inputs([name_map EXCEPT ![input_names[index + 1]] = index],
                       input_names, index + 1)

\* Prepare::new: [name_map, namespace]; the namespace gets one Undefined for
\* each entry of name_map.
Prepare_new(input_names) ==
    LET name_map == insert_inputs([n \in NameSet |-> NoIndex], input_names, 0) IN
    [name_map |-> name_map,
     namespace |-> [i \in 1 .. map_len(name_map) |-> Undefined]]

\* Prepare::get_id: the entry of the name, or a new slot at the end of the
\* namespace. [p, id]
get_id(p, name) ==
    IF p.name_map[name] # NoIndex THEN [p |-> p, id |-> p.name_map[name]]
    ELSE [p |-> [name_map |-> [p.name_map EXCEPT ![name] = Len(p.namespace)],
                 namespace |-> Append(p.namespace, Undefined)],
          id |-> Len(p.namespace)]

\* Evaluator::can_be_const and evaluate on a prepared expression: an
\* operator on two constants is replaced by its value.
fold_const(expr) ==
    IF expr.e = "Op" /\ expr.left.e = "Constant" /\ expr.right.e = "Constant"
    THEN Constant(expr.left.n + expr.right.n)
    ELSE expr

\* Prepare::prepare_expression: [p, expr]
RECURSIVE prepare_expression(_, _)
prepare_op(l, right) == [l |-> l, r |-> prepare_expression(l.p, right)]
prepare_op_done(lr) == [p |-> lr.r.p, expr |-> fold_const(Op(lr.l.expr, lr.r.expr))]
name_expr(g) == [p |-> g.p, expr |-> NameId(g.id)]
prepare_expression(p, expr) ==
    IF expr.e = "Constant" THEN [p |-> p, expr |-> expr]
    ELSE IF expr.e = "Name" THEN name_expr(get_id(p, expr.name))
    ELSE prepare_op_done(prepare_op(prepare_expression(p, expr.left), expr.right))

\* Prepare::prepare_nodes: [p, nodes]. A Pass leaves no node; Assign prepares
\* the value before the target and OpAssign the target before the value.
RECURSIVE prepare_nodes(_, _)
assign_node(e, g) == [p |-> g.p, nodes |-> <<Assign(g.id, e.expr)>>]
prepare_assign(e, target) == assign_node(e, get_id(e.p, target))
op_assign_node(g, e) == [p |-> e.p, nodes |-> <<OpAssign(g.id, e.expr)>>]
prepare_op_assign(g, object) == op_assign_node(g, prepare_expression(g.p, object))
expr_node(e) == [p |-> e.p, nodes |-> <<ExprNode(e.expr)>>]
if_node(test, body, or_else) ==
    [p |-> or_else.p, nodes |-> <<If(test.expr, body.nodes, or_else.nodes)>>]
prepare_if_else(test, body, node) == if_node(test, body, prepare_nodes(body.p, node.or_else))
prepare_if(test, node) == prepare_if_else(test, prepare_nodes(test.p, node.body), node)
for_node(target, iter, body, or_else) ==
    [p |-> or_else.p, nodes |-> <<For(target.expr, iter.expr, body.nodes, or_else.nodes)>>]
prepare_for_else(target, iter, body, node) ==
    for_node(target, iter, body, prepare_nodes(body.p, node.or_else))
prepare_for_body(target, iter, node) ==
    prepare_for_else(target, iter, prepare_nodes(iter.p, node.body), node)
prepare_for(target, node) ==
    prepare_for_body(target, prepare_expression(target.p, node.iter), node)

prepare_node(p, node) ==
    CASE node.node = "Pass" -> [p |-> p, nodes |-> <<>>]
      [] node.node = "Expr" -> expr_node(prepare_expression(p, node.expr))
      [] node.node = "Assign" -> prepare_assign(prepare_expression(p, node.object), node.target)
      [] node.node = "OpAssign" -> prepare_op_assign(get_id(p, node.target), node.object)
      [] node.node = "For" -> prepare_for(prepare_expression(p, node.target), node)
      [] OTHER -> prepare_if(prepare_expression(p, node.test), node)

push_nodes(first, rest) == [p |-> rest.p, nodes |-> first.nodes \o rest.nodes]
prepare_rest(first, nodes) == push_nodes(first, prepare_nodes(first.p, Tail(nodes)))
prepare_nodes(p, nodes) ==
    IF nodes = <<>> THEN [p |-> p, nodes |-> <<>>]
    ELSE prepare_rest(prepare_node(p, Head(nodes)), nodes)

\* prepare: Ok((p.namespace, new_nodes)). [namespace, nodes]
prepare_result(r) == [namespace |-> r.p.namespace, nodes |-> r.nodes]
prepare(nodes, input_names) == prepare_result(prepare_nodes(Prepare_new(input_names), nodes))

\* InternalRunError and its Display; the backquotes around the name are
\* written < and > here.
InternalRunError(variant, s) == [variant |-> variant, s |-> s]
internal_run_error_display(err) ==
    CASE err.variant = "Error" -> "Internal Error: " \o err.s
      [] err.variant = "TodoError" -> "Internal Error TODO: " \o err.s
      [] OTHER -> IF err.s = "" THEN "Internal Error: accessing undefined object"
                  ELSE "Internal Error: accessing undefined object <" \o err.s \o ">"

\* RunError: From<InternalRunError> gives the variant Internal; a user
\* exception would be the variant Exc with its ExcType.
NoError == [variant |-> "", exc_type |-> "", display |-> ""]
RunError_from_internal(err) ==
    [variant |-> "Internal", exc_type |-> "", display |-> internal_run_error_display(err)]

\* The evaluation of Expr::Name(id): the slot's object, or
\* InternalRunError::Undefined when the slot holds Undefined; s is the name
\* when the evaluator has it and empty when it has not. [value, err, panic]
read_name(namespace, id, s) ==
    IF id >= Len(namespace)
    THEN [value |-> Undefined, err |-> NoError, panic |-> "index out of bounds"]
    ELSE IF namespace[id + 1] = Undefined
    THEN [value |-> Undefined,
          err |-> RunError_from_internal(InternalRunError("Undefined", s)),
          panic |-> ""]
    ELSE [value |-> namespace[id + 1], err |-> NoError, panic |-> ""]

(* -------------------------- preparing and reading --------------------- *)

\* The programs prepared: up to MaxNodes statements over three names, with
\* up to MaxInputs input names, repeated ones included.
ExprMenu ==
    {Constant(1), Name("a"), Name("c"), Op(Name("a"), Name("c")), Op(Constant(1), Constant(1))}
NodeMenu ==
    {Pass}
        \cup {ExprNode(e) : e \in ExprMenu}
        \cup {Assign(n, e) : n \in {"a", "c"}, e \in {Constant(1), Name("b")}}
        \cup {OpAssign("c", Name("b")), OpAssign("b", Name("c"))}
        \cup {If(Name("a"), <<Assign("c", Constant(1))>>, <<ExprNode(Name("b"))>>),
              For(Name("c"), Name("a"), <<ExprNode(Name("c"))>>, <<Pass>>)}
NodeLists == UNION {[1 .. k -> NodeMenu] : k \in 0 .. MaxNodes}
InputNames == UNION {[1 .. k -> {"a", "b"}] : k \in 0 .. MaxInputs}

\* prepare(nodes, input_names), and the namespace handed to the run.
Prepare(nodes, input_names) ==
    /\ Running /\ UNCHANGED io
    /\ ret.op = ""
    /\ ret' = [op |-> "prepare", nodes |-> nodes, input_names |-> input_names,
               prepared |-> prepare(nodes, input_names),
               id |-> 0, value |-> Undefined, err |-> NoError]
    /\ UNCHANGED <<heap, roots, frames, halt, peak>>

\* The run binds an object to the local slot id.
AssignName(id) ==
    /\ Running /\ UNCHANGED io
    /\ ret.op = "prepare"
    /\ id < Len(ret.prepared.namespace)
    /\ ret' = [ret EXCEPT !.op = "assign", !.id = id,
                          !.prepared.namespace[id + 1] = "Int"]
    /\ UNCHANGED <<heap, roots, frames, halt, peak>>

\* The run evaluates Name(id): an error ends the run.
ReadNameDone(id, r) ==
    /\ ret' = [ret EXCEPT !.op = "name", !.id = id, !.value = r.value, !.err = r.err]
    /\ halt' = IF r.panic # "" THEN r.panic
               ELSE IF r.err.variant # "" THEN "MontyException" ELSE ""
    /\ UNCHANGED <<heap, roots, frames, peak>>

ReadName(id, s) ==
    /\ Running /\ UNCHANGED io
    /\ ret.op \in {"prepare", "assign"}
    /\ ReadNameDone(id, read_name(ret.prepared.namespace, id, s))

NextPrepare ==
    \/ \E nodes \in NodeLists, input_names \in InputNames : Prepare(nodes, input_names)
    \/ \E id \in 0 .. MaxInputs : AssignName(id)
    \/ \E id \in 0 .. MaxInputs, s \in {"", "a"} : ReadName(id, s)

SpecPrepare == Init /\ [][NextPrepare]_vars

(* ----------------------------- properties ----------------------------- *)

RECURSIVE Sum(_)
Sum(s) == IF s = <<>> THEN 0 ELSE Head(s) + Sum(Tail(s))

\* The payloads a frame holds while its helper has them out of their slots.
Held(f) == IF f.op = "with_two" /\ f.left # f.right THEN f.args ELSE <<f.args[1]>>

\* Live copies of Ref(id): with the callers, in the payloads of live entries,
\* and in the payloads that borrow helpers hold for live entries.
InPayloads(h, id) ==
    Sum([i \in 1 .. Len(h.entries) |->
            IF h.entries[i].some THEN CountIn(h.entries[i].data.items, id) ELSE 0])
InFrames(id) ==
    Sum([i \in 1 .. Len(frames) |->
            Sum([j \in 1 .. Len(Held(frames[i])) |-> CountIn(Held(frames[i])[j].items, id)])])
LiveCopies(id) == roots[id] + InPayloads(heap, id) + InFrames(id)

\* C1 (IV-1, P1): every Ref(id) held anywhere points at a live slot, every
\* live slot has refcount >= 1, the refcount equals the number k of live
\* Ref(id) copies held by callers and by payloads of live containers, and
\* get_refcount(id) returns that k -- after any sequence of allocate,
\* inc_ref, dec_ref and iadd_extend_list.
C1_RefcountCountsCopies ==
    Running =>
        \A id \in Ids :
            /\ LiveCopies(id) > 0 => IsSome(heap, id)
            /\ IsSome(heap, id) =>
                   /\ slot(heap, id).refcount >= 1
                   /\ slot(heap, id).refcount = LiveCopies(id)
                   /\ get_refcount(heap, id) = [refcount |-> LiveCopies(id), panic |-> ""]

\* An entry shared three ways, which only an extend can make here, next to a
\* freed slot: allocate, inc_ref, dec_ref and iadd_extend_list have all acted.
C1_Witness ==
    /\ Running
    /\ heap.free_list # <<>>
    /\ \E id \in Ids :
           /\ IsSome(heap, id)
           /\ slot(heap, id).refcount = MaxRefcount + 1
           /\ roots[id] >= 1
           /\ InPayloads(heap, id) >= 1

Last(s) == s[Len(s)]
Front(s) == SubSeq(s, 1, Len(s) - 1)

\* C2: allocate returns the most recently freed id when the free list is
\* non-empty (taking it off the list) and otherwise the current length of
\* entries (appending one slot); the new entry has refcount 1 and its payload
\* present, and no other slot changes. Frees put ids at the end of the list,
\* so its last element is the most recently freed one.
C2_AllocatePlacement ==
    [][/\ ret'.op = "allocate" =>
            LET id == ret'.id IN
            /\ heap.free_list # <<>> =>
                   /\ id = Last(heap.free_list)
                   /\ heap'.free_list = Front(heap.free_list)
                   /\ Len(heap'.entries) = Len(heap.entries)
            /\ heap.free_list = <<>> =>
                   /\ id = Len(heap.entries)
                   /\ Len(heap'.entries) = Len(heap.entries) + 1
                   /\ heap'.free_list = <<>>
            /\ IsSome(heap', id)
            /\ slot(heap', id).refcount = 1
            /\ HasData(heap', id)
            /\ roots'[id] = 1
            /\ \A j \in Ids : InRange(heap, j) /\ j # id => slot(heap', j) = slot(heap, j)
       /\ halt' = "" /\ Len(heap'.free_list) > Len(heap.free_list) =>
            SubSeq(heap'.free_list, 1, Len(heap.free_list)) = heap.free_list
      ]_vars

\* allocate has just returned id 1 while the older free id 0 stays listed:
\* both slots had been freed, 1 last.
C2_Witness ==
    /\ Running
    /\ ret.op = "allocate"
    /\ ret.id = 1
    /\ heap.free_list = <<0>>
    /\ HasData(heap, 1)

FreedBy(h, after) == {j \in Ids : IsSome(h, j) /\ ~IsSome(after, j)}
\* The refcount units dec_ref(id) takes from j: the one dropped by the caller
\* and one per occurrence of Ref(j) in the payloads of the entries freed.
UnitsDropped(h, after, id, j) ==
    (IF j = id THEN 1 ELSE 0)
    + Sum([i \in 1 .. Len(h.entries) |->
              IF i - 1 \in FreedBy(h, after) THEN CountIn(h.entries[i].data.items, j) ELSE 0])

\* C4: dec_ref on a slot with refcount > 1 only lowers that refcount by one.
\* On a slot with refcount 1 it empties the slot, puts the id on the free list
\* exactly once, and applies dec_ref once per occurrence to every child Ref of
\* the payload: a child reachable through several parents or several times
\* from one is freed exactly once, and only when its last reference goes.
C4_DecRefReleases ==
    Running =>
        \A id \in Ids :
            (IsSome(heap, id) /\ roots[id] > 0 /\ KeepsBorrowed(dec_ref(heap, id).heap)) =>
                LET r == dec_ref(heap, id)
                    freed == FreedBy(heap, r.heap)
                    n == Len(heap.free_list)
                IN  /\ r.panic = ""
                    /\ slot(heap, id).refcount > 1 =>
                           r.heap = SetSlot(heap, id,
                                        [slot(heap, id) EXCEPT !.refcount = @ - 1])
                    /\ slot(heap, id).refcount = 1 =>
                           /\ id \in freed
                           /\ r.heap.free_list[n + 1] = id
                    /\ Len(r.heap.entries) = Len(heap.entries)
                    /\ Len(r.heap.free_list) = n + Cardinality(freed)
                    /\ SubSeq(r.heap.free_list, 1, n) = heap.free_list
                    /\ {r.heap.free_list[i] : i \in n + 1 .. Len(r.heap.free_list)} = freed
                    /\ \A j \in Ids :
                           IsSome(heap, j) =>
                               LET k == UnitsDropped(heap, r.heap, id, j) IN
                               IF j \in freed
                               THEN slot(heap, j).refcount = k /\ slot(r.heap, j) = NoneSlot
                               ELSE /\ slot(heap, j).refcount > k
                                    /\ slot(r.heap, j) =
                                           [slot(heap, j) EXCEPT !.refcount = @ - k]

\* A parent about to go that holds the same child twice, the child alive
\* through those two references only; an earlier dec_ref has freed a slot.
C4_Witness ==
    /\ Running
    /\ heap.free_list # <<>>
    /\ \E p \in Ids, c \in Ids :
           /\ p # c
           /\ HasData(heap, p) /\ HasData(heap, c)
           /\ slot(heap, p).refcount = 1 /\ roots[p] = 1
           /\ CountIn(slot(heap, p).data.items, c) = 2
           /\ slot(heap, c).refcount = 2
           /\ FreedBy(heap, dec_ref(heap, p).heap) = {p, c}

\* C5: over any number of allocate / dec_ref-to-zero pairs the length of
\* entries stays within the peak number of simultaneously live entries.
C5_EntriesWithinPeak ==
    Running => /\ Len(heap.entries) <= peak
               /\ entry_count(heap) + Len(heap.free_list) = Len(heap.entries)

\* A slot handed out again: allocate returned id 0 into a two-slot heap.
C5_Witness ==
    /\ Running
    /\ ret.op = "allocate"
    /\ ret.id = 0
    /\ Len(heap.entries) = 2
    /\ peak = 2
    /\ heap.free_list = <<>>

\* Ids whose slot has been freed and not handed out again.
StaleIds == {id \in Ids : InRange(heap, id) /\ ~slot(heap, id).some}
\* A call that panicked and left the heap as it found it.
PanicsUntouched(r) == r.panic # "" /\ r.heap = heap
WithoutPayload(h, id) == SetSlot(h, id, [slot(h, id) EXCEPT !.data = Taken])

\* Every single-id access through a stale id panics, hands out no data and
\* leaves the heap alone.
StaleAccessPanics(id) ==
    /\ get(heap, id, "get") = [data |-> Taken, panic |-> Panic("get", "object already freed")]
    /\ get(heap, id, "get_mut") =
           [data |-> Taken, panic |-> Panic("get_mut", "object already freed")]
    /\ PanicsUntouched(inc_ref(heap, id))
    /\ PanicsUntouched(dec_ref(heap, id))
    /\ get_refcount(heap, id).panic # ""
    /\ PanicsUntouched(get_or_compute_hash(heap, id))
    /\ ~get_or_compute_hash(heap, id).hash.some
    /\ PanicsUntouched(with_entry_mut_take(heap, id))
    /\ with_entry_mut_take(heap, id).data = Taken
    /\ PanicsUntouched(call_attr_take(heap, id))
    /\ call_attr_take(heap, id).data = Taken
    /\ \A dest \in {<<>>, <<NoneValue>>} :
           /\ PanicsUntouched(iadd_extend_list(heap, id, dest))
           /\ iadd_extend_list(heap, id, dest).dest = dest
    /\ PanicsUntouched(with_two_take(heap, id, id))
    /\ \A other \in Ids : PanicsUntouched(with_two_take(heap, id, other))

\* get and get_mut on a slot out of range or with its payload taken.
GetPanicsWithoutPayload ==
    \A id \in Ids, func \in {"get", "get_mut"} :
        /\ ~InRange(heap, id) => get(heap, id, func) =
               [data |-> Taken, panic |-> Panic(func, "slot missing")]
        /\ IsSome(heap, id) /\ ~HasData(heap, id) => get(heap, id, func) =
               [data |-> Taken, panic |-> Panic(func, "data currently borrowed")]

\* C6: after a slot is freed and before it is reused, every access through
\* its id (get, get_mut, inc_ref, dec_ref, get_refcount, get_or_compute_hash,
\* with_entry_mut, with_two, call_attr, iadd_extend_list) panics and returns
\* no data; the heap is left unchanged by all of them except with_two(left,
\* id) with a live left whose payload is present: that call has taken left's
\* payload out of its slot by the time it panics on id. get and get_mut also
\* panic on a slot out of range and on a slot whose payload is taken.
C6_StaleIdPanics ==
    Running =>
        /\ \A id \in StaleIds :
               /\ StaleAccessPanics(id)
               /\ \A left \in Ids :
                      LET t == with_two_take(heap, left, id) IN
                      /\ t.panic # ""
                      /\ t.heap = IF left # id /\ HasData(heap, left)
                                  THEN WithoutPayload(heap, left) ELSE heap
        /\ GetPanicsWithoutPayload

\* C6 as stated: none of the accesses through a stale id changes the heap.
C6_StaleIdLeavesHeap ==
    Running =>
        /\ \A id \in StaleIds :
               /\ StaleAccessPanics(id)
               /\ \A left \in Ids : PanicsUntouched(with_two_take(heap, left, id))
        /\ GetPanicsWithoutPayload

\* A freed slot next to a live entry with its payload in place: the state in
\* which with_two(live, freed) takes before it panics.
C6_Witness ==
    /\ Running
    /\ StaleIds # {}
    /\ \E left \in Ids : HasData(heap, left) /\ slot(heap, left).data.kind = "Tuple"
    /\ frames = <<>>

\* C7: with_entry_mut(id, f) takes the payload out of slot id for as long as
\* f runs; meanwhile the entry exists and its refcount can be read and changed
\* by inc_ref / dec_ref. When f returns, the payload as f left it is back in
\* slot id, the refcount is what it was at that moment, nothing else in the
\* heap moved, and the result of f is what the helper returns.
C7_WithEntryMutBorrow ==
    [][/\ (Len(frames') > Len(frames) /\ frames'[Len(frames')].op = "with_entry_mut") =>
            LET id == frames'[Len(frames')].left IN
            /\ HasData(heap, id)
            /\ frames'[Len(frames')].args = <<slot(heap, id).data>>
            /\ heap' = WithoutPayload(heap, id)
       /\ \A i \in 1 .. Len(frames') :
            (halt' = "" /\ frames'[i].op = "with_entry_mut") =>
                LET id == frames'[i].left
                    e == slot(heap', id)
                IN  /\ IsSome(heap', id)
                    /\ e.data = Taken
                    /\ get_refcount(heap', id) = [refcount |-> e.refcount, panic |-> ""]
                    /\ inc_ref(heap', id) =
                           [heap |-> SetSlot(heap', id, [e EXCEPT !.refcount = @ + 1]),
                            panic |-> ""]
                    /\ e.refcount > 1 =>
                           dec_ref(heap', id) =
                               [heap |-> SetSlot(heap', id, [e EXCEPT !.refcount = @ - 1]),
                                panic |-> ""]
       /\ (frames # <<>> /\ Len(frames') < Len(frames) /\ halt' = ""
             /\ Top.op = "with_entry_mut") =>
            /\ heap' = SetSlot(heap, Top.left, [slot(heap, Top.left) EXCEPT !.data = Top.args[1]])
            /\ HasData(heap', Top.left)
            /\ \E result \in Results : ret' = Ret("with_entry_mut", Top.left, result, NoHash)
      ]_vars

\* with_entry_mut has returned Err, and the entry, a list holding itself and
\* held once by the caller, has its payload in place.
C7_Witness ==
    /\ Running
    /\ ret.op = "with_entry_mut"
    /\ ret.res = "Err"
    /\ HasData(heap, ret.id)
    /\ slot(heap, ret.id).refcount = 2
    /\ slot(heap, ret.id).data.kind = "List"
    /\ slot(heap, ret.id).data.items = <<Ref(ret.id), NoneValue>>

\* The slot is the target of an active with_entry_mut / call_attr / with_two.
Borrowed(id) == \E i \in 1 .. Len(frames) : frames[i].left = id \/ frames[i].right = id
\* The same entries with the same payloads in both heaps.
SamePayloads(h, after) ==
    /\ Len(after.entries) = Len(h.entries)
    /\ \A i \in 1 .. Len(h.entries) :
           after.entries[i].some = h.entries[i].some /\ after.entries[i].data = h.entries[i].data

\* C8 (IV-2): outside an active with_entry_mut, call_attr or with_two on the
\* slot, every HeapId somebody holds indexes an occupied slot with its payload
\* present; get_or_compute_hash and iadd_extend_list, which take the payload
\* themselves, have put it back whenever they return.
C8_SlotValidity ==
    Running =>
        /\ \A id \in Ids :
               (LiveCopies(id) > 0 \/ IsSome(heap, id)) /\ ~Borrowed(id) => HasData(heap, id)
        /\ \A id \in Ids :
               LET r == get_or_compute_hash(heap, id) IN
               r.panic = "" => SamePayloads(heap, r.heap)
        /\ \A id \in Ids, dest \in {<<>>, <<NoneValue>>} :
               LET r == iadd_extend_list(heap, id, dest) IN
               r.panic = "" => SamePayloads(heap, r.heap)

\* A tuple found unhashable by a first get_or_compute_hash (it holds a list)
\* with its payload back in place, while another slot is borrowed.
C8_Witness ==
    /\ Running
    /\ frames # <<>>
    /\ \E id \in Ids :
           /\ HasData(heap, id)
           /\ ~Borrowed(id)
           /\ slot(heap, id).data.kind = "Tuple"
           /\ slot(heap, id).hash_state = Unhashable

\* C9: with_two(a, b, f) with a = b takes the payload once, hands the same
\* payload to f as both arguments and restores it once without a panic; with
\* a # b it takes both payloads, and both are back in their own slots, as
\* they were taken, when the helper restores after f -- whatever the heap
\* went through while f ran.
C9_WithTwoBorrow ==
    Running =>
        /\ \A a \in Ids, b \in Ids :
               HasData(heap, a) /\ HasData(heap, b) =>
                   LET t == with_two_take(heap, a, b) IN
                   /\ t = [heap |-> WithoutPayload(WithoutPayload(heap, a), b),
                           args |-> <<slot(heap, a).data, slot(heap, b).data>>,
                           panic |-> ""]
                   /\ with_two_restore(t.heap, a, b, t.args) = [heap |-> heap, panic |-> ""]
        /\ \A i \in 1 .. Len(frames) :
               frames[i].op = "with_two" =>
                   LET a == frames[i].left
                       b == frames[i].right
                       args == frames[i].args
                       r == with_two_restore(heap, a, b, args)
                   IN  /\ IsSome(heap, a) /\ ~HasData(heap, a)
                       /\ IsSome(heap, b) /\ ~HasData(heap, b)
                       /\ args[1] # Taken /\ args[2] # Taken
                       /\ a = b => args[1] = args[2]
                       /\ r.panic = ""
                       /\ slot(r.heap, a).data = args[1]
                       /\ slot(r.heap, b).data = args[2]
                       /\ r.heap = SetSlot(SetSlot(heap, a, [slot(heap, a) EXCEPT !.data = args[1]]),
                                           b, [slot(heap, b) EXCEPT !.data = args[2]])

\* f of with_two(a, a, f) is running on one payload passed twice.
C9_Witness ==
    /\ Running
    /\ frames # <<>>
    /\ Top.op = "with_two"
    /\ Top.left = Top.right
    /\ Top.args[1] = Top.args[2]
    /\ Top.args[1].kind = "Str"
    /\ slot(heap, Top.left).data = Taken

\* py_eq on two Values / two payloads, to a nesting depth that covers the
\* tuples built here.
RECURSIVE ValueEq(_, _, _, _)
PayloadEq(h, d, e, fuel) ==
    /\ d.kind = e.kind
    /\ d.bytes = e.bytes
    /\ Len(d.items) = Len(e.items)
    /\ \A i \in 1 .. Len(d.items) : ValueEq(h, d.items[i], e.items[i], fuel)
ValueEq(h, v, w, fuel) ==
    IF ~IsRef(v) \/ ~IsRef(w) THEN v = w
    ELSE IF v.id = w.id THEN TRUE
    ELSE /\ fuel > 0
         /\ HasData(h, v.id) /\ HasData(h, w.id)
         /\ PayloadEq(h, slot(h, v.id).data, slot(h, w.id).data, fuel - 1)

\* C10 (P3): for a Str, Bytes or hashable Tuple entry every call of
\* get_or_compute_hash returns the same Some(h): a call on an entry with
\* Cached(h) returns h and leaves the heap alone, a first call caches what it
\* returns, and a cached hash stays as long as the entry lives; and two
\* entries with structurally equal immutable contents return the same h.
C10_HashIdempotentConsistent ==
    [][/\ ret'.op = "get_or_compute_hash" =>
            LET id == ret'.id IN
            /\ slot(heap, id).hash_state.tag = "Cached" =>
                   ret'.hash = SomeHash(slot(heap, id).hash_state.hash) /\ heap' = heap
            /\ ret'.hash.some => slot(heap', id).hash_state = Cached(ret'.hash.v)
       /\ \A id \in Ids :
            (IsSome(heap, id) /\ IsSome(heap', id) /\ slot(heap, id).hash_state.tag = "Cached") =>
                slot(heap', id).hash_state = slot(heap, id).hash_state
       /\ halt' = "" =>
            \A a \in Ids, b \in Ids :
                (/\ HasData(heap', a) /\ HasData(heap', b)
                 /\ slot(heap', a).data.kind \in {"Str", "Bytes", "Tuple"}
                 /\ PayloadEq(heap', slot(heap', a).data, slot(heap', b).data, MaxSlots)) =>
                    LET ra == get_or_compute_hash(heap', a)
                        rb == get_or_compute_hash(heap', b)
                    IN  (ra.panic = "" /\ rb.panic = "") => ra.hash = rb.hash
      ]_vars

\* The moves hash_state may make while an entry lives.
HashStep(old, now) ==
    now = old \/ (old = Unknown /\ now.tag \in {"Cached", "Unhashable"})

\* C11: an entry's hash_state starts Unhashable for List and Dict and Unknown
\* for Str, Bytes and Tuple; while the entry lives the only changes are
\* Unknown -> Cached and Unknown -> Unhashable, so Unhashable is final, and
\* get_or_compute_hash on an Unhashable entry returns None, every time,
\* without touching the heap.
C11_HashStateTransitions ==
    [][halt' = "" =>
          \A id \in Ids :
              /\ (~IsSome(heap, id) /\ IsSome(heap', id)) =>
                     /\ slot(heap', id).data.kind \in {"List", "Dict"} =>
                            slot(heap', id).hash_state = Unhashable
                     /\ slot(heap', id).data.kind \in {"Str", "Bytes", "Tuple"} =>
                            slot(heap', id).hash_state = Unknown
              /\ (IsSome(heap, id) /\ IsSome(heap', id)) =>
                     HashStep(slot(heap, id).hash_state, slot(heap', id).hash_state)
              /\ (IsSome(heap', id) /\ slot(heap', id).hash_state = Unhashable) =>
                     get_or_compute_hash(heap', id) =
                         [heap |-> heap', hash |-> NoHash, panic |-> ""]
      ]_vars

\* A first get_or_compute_hash has just found a tuple unhashable: it returned
\* None and the tuple went from Unknown to Unhashable.
C11_Witness ==
    /\ Running
    /\ ret.op = "get_or_compute_hash"
    /\ ~ret.hash.some
    /\ HasData(heap, ret.id)
    /\ slot(heap, ret.id).data.kind = "Tuple"
    /\ slot(heap, ret.id).hash_state = Unhashable

SlotMissing(h, id) ==
    /\ get(h, id, "get") = [data |-> Taken, panic |-> Panic("get", "slot missing")]
    /\ get(h, id, "get_mut") = [data |-> Taken, panic |-> Panic("get_mut", "slot missing")]
    /\ inc_ref(h, id) = [heap |-> h, panic |-> Panic("inc_ref", "slot missing")]
    /\ dec_ref(h, id) = [heap |-> h, panic |-> Panic("dec_ref", "slot missing")]
    /\ get_refcount(h, id).panic = Panic("get_refcount", "slot missing")
    /\ get_or_compute_hash(h, id).panic = Panic("get_or_compute_hash", "slot missing")
    /\ with_entry_mut_take(h, id).panic = Panic("with_entry_mut", "slot missing")
    /\ call_attr_take(h, id).panic = Panic("call_attr", "slot missing")
    /\ with_two_take(h, id, id).panic = Panic("with_two", "slot missing")
    /\ iadd_extend_list(h, id, <<>>).panic = Panic("iadd_extend_list", "slot missing")

\* C13: clear() leaves no entries and an empty free list: entry_count() is 0
\* afterwards, every HeapId issued before is invalid (any access panics with
\* "slot missing"), and the next allocate returns id 0.
C13_ClearEmptiesHeap ==
    Running =>
        LET c == clear(heap) IN
        /\ c.entries = <<>>
        /\ c.free_list = <<>>
        /\ entry_count(c) = 0
        /\ \A id \in Ids : SlotMissing(c, id)
        /\ \A data \in Payloads :
               LET a == allocate(c, data) IN
               a.id = 0 /\ Len(a.heap.entries) = 1 /\ a.heap.free_list = <<>>

\* A heap with live entries and a freed slot, about to be cleared.
C13_Witness ==
    /\ Running
    /\ frames = <<>>
    /\ heap.free_list # <<>>
    /\ entry_count(heap) >= 1
    /\ \E id \in Ids : roots[id] > 0

\* One payload of each variant, and the payloads of the live entries.
OnePerVariant == {Str(<<>>), Bytes(<<>>), List(<<>>), Tuple(<<>>), Dict(<<>>)}
LivePayloads(h) == {slot(h, id).data : id \in {i \in Ids : HasData(h, i)}}

\* C14 (P4): every variant has its case in the PyTrait operations, and for
\* two payloads of different variants py_eq returns false and py_add, py_sub,
\* py_mod and py_mod_eq return None, without a panic and without touching
\* the heap; a binary operator applied to two such entries gives False for
\* == and the unsupported-operand TypeError otherwise.
C14_CrossVariantDispatch ==
    Running =>
        /\ \A id \in Ids :
               HasData(heap, id) =>
                   /\ py_type(Ref(id), heap) \in {"str", "bytes", "list", "tuple", "dict"}
                   /\ py_bool(Ref(id), heap) \in BOOLEAN
        /\ \A a \in OnePerVariant \cup LivePayloads(heap),
              b \in OnePerVariant \cup LivePayloads(heap) :
               a.kind # b.kind =>
                   /\ py_eq(a, b, heap) = [eq |-> FALSE, panic |-> ""]
                   /\ py_add(a, b, heap) = NoValue(heap)
                   /\ py_sub(a, b, heap) = NoValue(heap)
                   /\ py_mod(a, b, heap) = NoValue(heap)
                   /\ py_mod_eq(a, b, 0) = [some |-> FALSE, eq |-> FALSE]
        /\ (/\ ret.op \in {"==", "+", "-", "%", "%=="}
            /\ py_type(ret.args[1], heap) # py_type(ret.args[2], heap)) =>
               IF ret.op = "==" THEN ret.exc = "" /\ ret.value = BoolValue(FALSE)
               ELSE /\ ret.exc = "TypeError"
                    /\ ret.msg = binary_type_error(ret.op, py_type(ret.args[1], heap),
                                                   py_type(ret.args[2], heap))

\* A string has just been compared with a list.
C14_Witness ==
    /\ Running
    /\ ret.op = "=="
    /\ py_type(ret.args[1], heap) = "str"
    /\ py_type(ret.args[2], heap) = "list"
    /\ ret.value = BoolValue(FALSE)

IsStr(h, id) == HasData(h, id) /\ slot(h, id).data.kind = "Str"

C16_AddIntStrTypeError ==
    (ret.op = "run" /\ ~add_objects(ret.args[1].object, ret.args[2].object).ok) =>
        /\ ret.exc = "TypeError"
        /\ ret.msg = "unsupported operand type(s) for +: '" \o ret.args[1].object.type
                     \o "' and '" \o ret.args[2].object.type \o "'"
        /\ ret.position = CodeRange(ret.args[1].position.start, ret.args[2].position.end)

\* A list the caller holds whose items are all strings, and at least one.
ListOfStrs(h, id) ==
    /\ HasData(h, id) /\ roots[id] > 0
    /\ slot(h, id).data.kind = "List"
    /\ slot(h, id).data.items # <<>>
    /\ \A i \in 1 .. Len(slot(h, id).data.items) :
           LET v == slot(h, id).data.items[i] IN IsRef(v) /\ IsStr(h, v.id)

\* sum as the caller calls it: with clones of its arguments.
call_sum(iterable, start, h) ==
    builtin_sum(iterable, start, clone_with_heap(start, clone_with_heap(iterable, h)))

CantSumStrings == "sum() can't sum strings [use ''.join(seq) instead]"

\* C17, as the code has it: sum of a list of strings without a start fails
\* at the first item with TypeError unsupported operand type(s) for +: 'int'
\* and 'str'; the message sum() can't sum strings [use ''.join(seq) instead]
\* is the TypeError for a str start, and for nothing else.
C17_SumOfStrings ==
    Running =>
        \A l \in Ids :
            /\ ListOfStrs(heap, l) =>
                   LET r == call_sum(Ref(l), NoStart, heap) IN
                   /\ r.exc = "TypeError"
                   /\ r.msg = "unsupported operand type(s) for +: 'int' and 'str'"
                   /\ r.pulled = 1
                   /\ r.heap = heap
            /\ (CallerHolds(Ref(l)) /\ ListOrImmediate(Ref(l))) =>
                   \A start \in EvalValues \cup {NoStart} :
                       CallerHolds(start) =>
                           LET r == call_sum(Ref(l), start, heap) IN
                           (r.exc = "TypeError" /\ r.msg = CantSumStrings)
                               <=> (start # NoStart /\ py_type(start, heap) = "str")

\* C17 as claimed: sum of a list of strings without a start fails with the
\* TypeError sum() can't sum strings [use ''.join(seq) instead].
C17_SumOfStringsCantSum ==
    Running =>
        \A l \in Ids :
            ListOfStrs(heap, l) =>
                LET r == call_sum(Ref(l), NoStart, heap) IN
                r.exc = "TypeError" /\ r.msg = CantSumStrings

\* sum(list of strings) has just failed.
C17_Witness ==
    /\ Running
    /\ ret.op = "sum"
    /\ ret.args[2] = NoStart
    /\ IsRef(ret.args[1]) /\ ListOfStrs(heap, ret.args[1].id)
    /\ ret.exc = "TypeError"

\* The left fold ((acc + x1) + x2) + ... of py_add, nothing dropped on the
\* way: [ok, value, heap, at], at counting the items added.
RECURSIVE LeftFold(_, _, _, _)
LeftFold(items, acc, h, at) ==
    IF items = <<>> THEN [ok |-> TRUE, value |-> acc, heap |-> h, at |-> at]
    ELSE LET r == value_py_add(acc, Head(items), h) IN
         IF r.some THEN LeftFold(Tail(items), r.value, r.heap, at + 1)
         ELSE [ok |-> FALSE, value |-> acc, heap |-> h, at |-> at]

\* What a Value holds: the payload for a Ref, the Value for an immediate.
Content(v, h) == IF IsRef(v) THEN slot(h, v.id).data ELSE Str(<<>>)
SameContent(v, h, w, g) ==
    IF IsRef(v) /\ IsRef(w) THEN HasData(h, v.id) /\ HasData(g, w.id) /\ Content(v, h) = Content(w, g)
    ELSE v = w

\* C18: sum(iterable, start) is the left fold of py_add over the items in
\* iteration order from start, or from Int 0 without a start: the empty
\* iterable gives start, Ints give their arithmetic sum, lists their
\* concatenation; a str start is rejected with TypeError before an item is
\* pulled; the first item py_add does not support ends the call with the
\* TypeError naming the accumulator's and the item's type.
C18_SumLeftFold ==
    Running =>
        \A l \in Ids, start \in EvalValues \cup {NoStart} :
            (/\ CallerHolds(Ref(l)) /\ ListOrImmediate(Ref(l)) /\ CallerHolds(start)) =>
                LET items == slot(heap, l).data.items
                    first == IF start = NoStart THEN IntValue(0) ELSE start
                    r == call_sum(Ref(l), start, heap)
                    f == LeftFold(items, first, heap, 0)
                IN  IF start # NoStart /\ py_type(start, heap) = "str"
                    THEN r.exc = "TypeError" /\ r.msg = CantSumStrings /\ r.pulled = 0
                         /\ r.heap = heap
                    ELSE IF f.ok
                    THEN /\ r.exc = "" /\ r.pulled = Len(items)
                         /\ SameContent(r.value, r.heap, f.value, f.heap)
                         /\ items = <<>> => r.value = first
                         /\ (first.tag = "Int" /\ \A i \in 1 .. Len(items) : items[i].tag = "Int") =>
                                r.value = IntValue(first.id + Sum([i \in 1 .. Len(items) |-> items[i].id]))
                    ELSE /\ r.exc = "TypeError" /\ r.pulled = f.at + 1
                         /\ r.msg = "unsupported operand type(s) for +: '"
                                    \o py_type(f.value, f.heap) \o "' and '"
                                    \o py_type(items[f.at + 1], heap) \o "'"

\* sum has just folded a list of lists onto a list start: the result is a
\* new list.
C18_Witness ==
    /\ Running
    /\ ret.op = "sum"
    /\ ret.exc = ""
    /\ IsRef(ret.value) /\ IsRef(ret.args[2])
    /\ ret.value # ret.args[2]
    /\ ret.pulled > 0

\* The position of the first truthy item, or the length when there is none.
RECURSIVE FirstTruthy(_, _, _)
FirstTruthy(items, h, at) ==
    IF at > Len(items) THEN Len(items)
    ELSE IF py_bool(items[at], h) THEN at
    ELSE FirstTruthy(items, h, at + 1)

\* C19: any(iterable) is True iff some item is truthy, False for the empty
\* iterable, and pulls no item after the first truthy one.
C19_AnyShortCircuits ==
    Running =>
        \A l \in Ids :
            (CallerHolds(Ref(l)) /\ ListOrImmediate(Ref(l))) =>
                LET items == slot(heap, l).data.items
                    r == builtin_any(Ref(l), clone_with_heap(Ref(l), heap))
                IN  /\ r.exc = ""
                    /\ r.value = BoolValue(\E i \in 1 .. Len(items) : py_bool(items[i], heap))
                    /\ items = <<>> => r.value = BoolValue(FALSE)
                    /\ r.pulled = FirstTruthy(items, heap, 1)
                    /\ r.heap = heap

\* any has just answered True without pulling the last item.
C19_Witness ==
    /\ Running
    /\ ret.op = "any"
    /\ ret.value = BoolValue(TRUE)
    /\ IsRef(ret.args[1])
    /\ ret.pulled < Len(slot(heap, ret.args[1].id).data.items)

\* C20: filter(pred, iterable) returns a newly allocated list of exactly the
\* items for which pred(x) is truthy (the items that are truthy when pred is
\* None), in their order, each occurrence once; pred is called once with each
\* item, in order, and not at all when it is None.
C20_FilterKeepsTruthy ==
    Running =>
        \A l \in Ids, function \in {NoneValue} \cup {FunctionValue(k) : k \in Functions} :
            (CallerHolds(Ref(l)) /\ ListOrImmediate(Ref(l))) =>
                LET items == slot(heap, l).data.items
                    r == builtin_filter(function, Ref(l), clone_with_heap(Ref(l), heap))
                    Keep(x) == IF function = NoneValue THEN py_bool(x, heap)
                               ELSE LET p == evaluate_function(function, x, heap) IN
                                    p.exc = "" /\ py_bool(p.value, p.heap)
                IN  r.exc = "" =>
                        /\ IsRef(r.value)
                        /\ ~IsSome(heap, r.value.id)
                        /\ IsSome(r.heap, r.value.id)
                        /\ slot(r.heap, r.value.id).refcount = 1
                        /\ slot(r.heap, r.value.id).data = List(SelectSeq(items, Keep))
                        /\ r.calls = IF function = NoneValue THEN <<>> ELSE items
                        /\ slot(r.heap, l).data = slot(heap, l).data

\* filter with a predicate has just kept some items of a list and left
\* others out.
C20_Witness ==
    /\ Running
    /\ ret.op = "filter"
    /\ ret.exc = ""
    /\ ret.args[1] # NoneValue
    /\ slot(heap, ret.value.id).data.items # <<>>
    /\ Len(slot(heap, ret.value.id).data.items) < Len(ret.calls)

\* The shortest of the iterables' lengths, and the arguments of round i.
RECURSIVE MinLen(_)
MinLen(seqs) ==
    IF Len(seqs) = 1 THEN Len(seqs[1])
    ELSE LET rest == MinLen(Tail(seqs)) IN
         IF Len(seqs[1]) < rest THEN Len(seqs[1]) ELSE rest
Round(seqs, i) == [k \in 1 .. Len(seqs) |-> seqs[k][i]]

\* The caller's clones of the arguments of a call.
Cloned(values) == inc_ref_all(heap, ref_ids(values)).heap

\* C21: map(f, it1, ..., itk) returns a newly allocated list as long as the
\* shortest iterable whose i-th element is f applied to the i-th elements of
\* the iterables in argument order; f is called with full rounds only, and
\* the items pulled in a round that a later iterator cuts short are released
\* (every refcount differs from before by the copies the new entries hold);
\* fewer than two arguments, or a function that is not a builtin, is a
\* TypeError. Stated of every call the program can make in a state where it
\* has not made its call yet.
C21_MapElementwise ==
    (Running /\ NoCallYet) =>
        \A positional \in MapPositionals :
            (\A i \in 1 .. Len(positional) :
                 CallerHolds(positional[i]) /\ ListOrImmediate(positional[i])) =>
                LET r == builtin_map(positional, Cloned(positional))
                    iterables == Tail(positional)
                    seqs == [i \in 1 .. Len(iterables) |-> slot(heap, iterables[i].id).data.items]
                IN  /\ Len(positional) < 2 =>
                        /\ r.exc = "TypeError"
                        /\ r.msg = "map() must have at least two arguments."
                        /\ r.heap = heap
                    /\ (Len(positional) >= 2 /\ positional[1].tag # "Builtin") =>
                        /\ r.exc = "TypeError"
                        /\ r.msg = "'function' object is not callable"
                        /\ r.heap = heap
                    /\ r.exc = "" =>
                        /\ IsRef(r.value)
                        /\ ~IsSome(heap, r.value.id)
                        /\ slot(r.heap, r.value.id).refcount = 1
                        /\ slot(r.heap, r.value.id).data.kind = "List"
                        /\ Len(slot(r.heap, r.value.id).data.items) = MinLen(seqs)
                        /\ r.calls = [i \in 1 .. MinLen(seqs) |-> Round(seqs, i)]
                        /\ \A i \in 1 .. MinLen(seqs) :
                               LET alone == builtin_call(positional[1], Round(seqs, i),
                                                         Cloned(Round(seqs, i)))
                               IN  /\ alone.exc = ""
                                   /\ SameContent(slot(r.heap, r.value.id).data.items[i], r.heap,
                                                  alone.value, alone.heap)
                        /\ \A id \in Ids :
                               HasData(heap, id) =>
                                   /\ HasData(r.heap, id)
                                   /\ slot(r.heap, id).refcount - slot(heap, id).refcount
                                          = InPayloads(r.heap, id) - InPayloads(heap, id)

\* map has just returned a list shorter than its first iterable: a later
\* iterable ran out first, after the function was called at least once.
C21_Witness ==
    /\ Running
    /\ ret.op = "map"
    /\ ret.exc = ""
    /\ Len(ret.args) = 3
    /\ Len(ret.calls) > 0
    /\ Len(slot(heap, ret.value.id).data.items) < Len(slot(heap, ret.args[2].id).data.items)

\* The same entries are live in both heaps, each with the same refcount.
SameCounts(h, after) ==
    /\ entry_count(after) = entry_count(h)
    /\ \A id \in Ids :
           /\ IsSome(after, id) <=> IsSome(h, id)
           /\ IsSome(h, id) => slot(after, id).refcount = slot(h, id).refcount

\* A call of sum, any or filter that ends with an exception has released
\* every reference it held.
ErrorPathsRelease ==
    \A iterable \in EvalValues :
        (CallerHolds(iterable) /\ ListOrImmediate(iterable)) =>
            /\ \A start \in EvalValues \cup {NoStart} :
                   CallerHolds(start) =>
                       LET r == builtin_sum(iterable, start, Cloned(<<iterable, start>>))
                       IN  r.exc # "" => SameCounts(heap, r.heap)
            /\ LET r == builtin_any(iterable, Cloned(<<iterable>>))
               IN  r.exc # "" => SameCounts(heap, r.heap)
            /\ \A function \in {NoneValue} \cup {FunctionValue(k) : k \in Functions} :
                   LET r == builtin_filter(function, iterable, Cloned(<<iterable>>))
                   IN  r.exc # "" => SameCounts(heap, r.heap)

\* C22: when any, filter, map or sum returns an error, every Value the
\* builtin held (arguments, iterators, pulled items, the accumulator, the
\* results already collected) has been released: each entry's refcount is
\* what it was before the call and no entry was added or freed.
C22_ErrorPathsRelease ==
    Running =>
        /\ ErrorPathsRelease
        /\ \A positional \in MapPositionals :
               (\A i \in 1 .. Len(positional) :
                    CallerHolds(positional[i]) /\ ListOrImmediate(positional[i])) =>
                   LET r == builtin_map(positional, Cloned(positional))
                   IN  r.exc # "" => SameCounts(heap, r.heap)

\* sum, any and filter alone keep the promise of C22.
C22_SumAnyFilterRelease == Running => ErrorPathsRelease

\* C23: an expression statement that calls any, filter, map or sum and
\* succeeds leaves entry_count() at its value before the statement, and every
\* entry at the refcount it had: the temporaries and the discarded result
\* have been freed.
C23_StatementConservesEntries ==
    [][ret'.op = "statement" =>
           entry_count(heap') = ret'.before /\ SameCounts(heap, heap')]_vars

\* An expression statement has just discarded the list that filter or map
\* allocated for it, with two entries live before and after.
C23_Witness ==
    /\ Running
    /\ ret.op = "statement"
    /\ ret.call \in {"filter", "map"}
    /\ IsRef(ret.value)
    /\ ~IsSome(heap, ret.value.id)
    /\ entry_count(heap) = ret.before
    /\ ret.before = 2

\* texts with sep between every two neighbours: Len(texts) - 1 separators.
RECURSIVE Interleave(_, _)
Interleave(texts, sep) ==
    IF Len(texts) <= 1 THEN texts
    ELSE <<Head(texts), sep>> \o Interleave(Tail(texts), sep)

NonEmpty(text) == text # <<>>

\* What a step made a writer emit: the growth of the Collect buffer or of
\* what was sent on; ok is false when something else changed.
Emitted(w, after) ==
    LET field == IF w.mode = "Collect" THEN "buf" ELSE "sent"
        start == Len(w[field])
    IN  [ok |-> /\ after.mode = w.mode /\ after.refuses = w.refuses
                /\ Len(after[field]) >= start
                /\ SubSeq(after[field], 1, start) = w[field]
                /\ \A other \in {"buf", "sent"} \ {field} : after[other] = w[other],
         text |-> SubSeq(after[field], start + 1, Len(after[field]))]

\* The writer calls a step made.
NewWrites == SubSeq(run'.log, Len(run.log) + 1, Len(run'.log))

\* What print is to emit for its arguments, a separator and a terminator.
PrintedTexts(args, sep, end) ==
    Interleave([i \in 1 .. Len(args) |-> py_str(args[i])], sep) \o <<end>>

C25_EndNoneIsEmpty ==
    [][(/\ ret'.op = "print" /\ ret'.err = ""
        /\ ret'.args = <<StrObject(Hello)>> /\ ret'.end = NoneKw
        /\ writer.mode = "Collect") =>
           Emitted(writer, writer').text = Hello]_vars

\* What the program does with end=None: the terminator is the newline of a
\* call without end.
C25_EndNoneIsNewline ==
    [][(ret'.op = "print" /\ ret'.err = "" /\ ret'.end = NoneKw /\ writer.mode = "Collect") =>
           LET sep == IF ret'.sep.kw = "str" THEN ret'.sep.chars ELSE <<" ">>
           IN  Emitted(writer, writer').text = Flatten(PrintedTexts(ret'.args, sep, <<"\n">>))]_vars

\* print('hello', end=None) has just written to an empty Collect buffer.
C25_Witness ==
    /\ ret.op = "print"
    /\ ret.args = <<StrObject(Hello)>> /\ ret.end = NoneKw /\ ret.sep = Absent
    /\ writer.mode = "Collect"
    /\ Len(run.log) = 2

\* C26: a Collect writer's buffer is the concatenation, in call order, of
\* every text written and every character pushed since it was created, runs
\* that ended included; collected_output is Some(buffer) for Collect and None
\* for Disabled, Stdout and Callback; a Disabled writer accepts every call and
\* stays as it is.
C26_CollectAccumulates ==
    /\ writer.mode = "Collect" => writer.buf = Flatten(run.log)
    /\ writer.mode # "Collect" => writer.buf = <<>>
    /\ collected_output(writer) =
           IF writer.mode = "Collect" THEN [some |-> TRUE, text |-> Flatten(run.log)]
           ELSE [some |-> FALSE, text |-> <<>>]
    /\ writer.mode = "Disabled" => (writer = Disabled /\ halt = "")

\* The second run of a Collect writer has just added to what the first run
\* left in the buffer.
C26_Witness ==
    /\ writer.mode = "Collect"
    /\ run.n = 2
    /\ ret.op \in {"print", "stdout_write", "stdout_push"}
    /\ Len(writer.buf) > 2
    /\ Len(run.log) > 2

\* The texts of a sequence with sep between every two neighbours.
RECURSIVE JoinStrings(_, _)
JoinStrings(texts, sep) ==
    IF texts = <<>> THEN ""
    ELSE IF Len(texts) = 1 THEN texts[1]
    ELSE texts[1] \o sep \o JoinStrings(Tail(texts), sep)

ArgTexts(args) == [i \in 1 .. Len(args) |-> object_display(args[i])]

\* C27: an exception's arguments display as nothing when there are none, as
\* the argument itself when there is one, and as the tuple (a1, a2, ..., an),
\* separated by a comma and a space, when there are two or more;
\* str_with_type puts `<Kind>: ` before it.
C27_ExceptionDisplay ==
    ret.op = "raise" =>
        LET args == ret.exc.args
            shown == exception_display(args)
        IN  /\ Len(args) = 0 => shown = ""
            /\ Len(args) = 1 => shown = object_display(args[1])
            /\ Len(args) >= 2 => shown = "(" \o JoinStrings(ArgTexts(args), ", ") \o ")"
            /\ str_with_type(ret.exc) = ret.exc.exc_type \o ": " \o shown
            /\ ret.calls = <<>> => ret.display = ret.exc.exc_type \o ": " \o shown

\* A ValueError with three arguments has just been raised without a frame.
C27_Witness ==
    /\ ret.op = "raise"
    /\ ret.calls = <<>>
    /\ ret.exc.args = <<ObjectStr("no"), ObjectInt(7), ObjectStr("no")>>
    /\ ret.display = "ValueError: (no, 7, no)"

\* C28: a raised exception displays as the line `Traceback (most recent call
\* last):`, then its frames from the outermost call down to the raise site,
\* then `<Kind>: <message>`; without a frame it displays as `<Kind>:
\* <message>` alone.
C28_TracebackOrder ==
    ret.op = "raise" =>
        LET message == ret.exc.exc_type \o ": " \o exception_display(ret.exc.args)
            lines == [i \in 1 .. Len(ret.calls) |->
                         traceback(ret.calls[i].position, ret.calls[i].frame_name)]
        IN  ret.display =
                IF ret.calls = <<>> THEN message
                ELSE "Traceback (most recent call last):\n" \o JoinStrings(lines, "") \o message

\* An exception has just been raised in f, called from the module, called
\* from an unnamed frame: three different frames.
C28_Witness ==
    /\ ret.op = "raise"
    /\ Len(ret.calls) = 3
    /\ ret.calls[1].frame_name = "" /\ ret.calls[2].frame_name = "<module>"
    /\ ret.calls[3].frame_name = "f"
    /\ halt = "MontyException"

\* The text this run has added to the Collect buffer.
RunOutput == SubSeq(writer.buf, run.start + 1, Len(writer.buf))

Denied == "ResourceError::AllocationLimit"

RECURSIVE expr_pairs(_, _)
expr_pairs(expr, prepared) ==
    IF expr.e = "Name" THEN {<<expr.name, prepared.id>>}
    ELSE IF expr.e = "Op" /\ prepared.e = "Op"
    THEN expr_pairs(expr.left, prepared.left) \cup expr_pairs(expr.right, prepared.right)
    ELSE {}

RECURSIVE node_pairs(_, _)
one_node_pairs(node, prepared) ==
    CASE node.node = "Expr" -> expr_pairs(node.expr, prepared.expr)
      [] node.node \in {"Assign", "OpAssign"} ->
            {<<node.target, prepared.target>>} \cup expr_pairs(node.object, prepared.object)
      [] node.node = "For" ->
            expr_pairs(node.target, prepared.target) \cup expr_pairs(node.iter, prepared.iter)
                \cup node_pairs(node.body, prepared.body)
                \cup node_pairs(node.or_else, prepared.or_else)
      [] OTHER ->
            expr_pairs(node.test, prepared.test) \cup node_pairs(node.body, prepared.body)
                \cup node_pairs(node.or_else, prepared.or_else)
node_pairs(nodes, prepared) ==
    IF nodes = <<>> THEN {}
    ELSE IF Head(nodes).node = "Pass" THEN node_pairs(Tail(nodes), prepared)
    ELSE one_node_pairs(Head(nodes), Head(prepared)) \cup node_pairs(Tail(nodes), Tail(prepared))

\* Every index is a slot of the namespace, a name has one index and an index
\* one name, and every slot holds Undefined.
NamesIndexed(pairs, namespace) ==
    /\ \A pr \in pairs : pr[2] >= 0 /\ pr[2] < Len(namespace)
    /\ \A x \in pairs, y \in pairs : (x[1] = y[1]) <=> (x[2] = y[2])
    /\ \A i \in 1 .. Len(namespace) : namespace[i] = Undefined

NoRepeats(names) == \A i \in 1 .. Len(names), j \in 1 .. Len(names) : names[i] = names[j] => i = j

\* C31: for every node list and every input_names list, repeated names
\* included, every index of a Name or of an Assign / OpAssign target in the
\* prepared program is smaller than the length of the namespace returned, a
\* name always has the same index, two names never share one, and every slot
\* of the namespace holds Undefined.
C31_NamesIndexed ==
    ret.op = "prepare" =>
        NamesIndexed(node_pairs(ret.nodes, ret.prepared.nodes), ret.prepared.namespace)

\* With input names that are all different the name table is as C31 says.
C31_DistinctInputsIndexed ==
    (ret.op = "prepare" /\ NoRepeats(ret.input_names)) =>
        NamesIndexed(node_pairs(ret.nodes, ret.prepared.nodes), ret.prepared.namespace)

\* The run has just read a local slot that holds Undefined.
ReadUndefined ==
    /\ ret.op = "name"
    /\ ret.id < Len(ret.prepared.namespace)
    /\ ret.prepared.namespace[ret.id + 1] = Undefined

\* C32: reading a name whose local slot still holds Undefined raises the
\* user exception NameError, not an internal error.
C32_UndefinedReadIsNameError ==
    ReadUndefined => ret.err.variant = "Exc" /\ ret.err.exc_type = "NameError"

\* What the read of an Undefined slot does give: the internal error
\* Undefined, which ends the run.
C32_UndefinedReadIsInternal ==
    ReadUndefined =>
        /\ ret.err.variant = "Internal"
        /\ ret.err.display \in {"Internal Error: accessing undefined object",
                                "Internal Error: accessing undefined object <a>"}
        /\ halt = "MontyException"

\* dec_ref would free the entry: it is live with one reference left.
LastReference(id) == IsSome(heap, id) /\ slot(heap, id).refcount = 1
\* The caller holds that last reference and can drop it.
CallerDropsLast(id) == LastReference(id) /\ roots[id] = 1

\* C33: freeing nested containers with dec_ref goes through a work-list: the
\* number of dec_ref invocations active at once is the same constant
\* whatever the depth of the containers freed, and does not grow with it.
C33_DecRefDepthConstant ==
    Running =>
        \A a \in Ids, b \in Ids :
            (CallerDropsLast(a) /\ CallerDropsLast(b)) =>
                dec_ref_calls(heap, a).depth = dec_ref_calls(heap, b).depth

\* Counting the invocations does not change what dec_ref does, and a list
\* whose only element is freed with it takes one invocation more than that
\* element alone.
C33_DepthFollowsNesting ==
    Running =>
        \A id \in Ids :
            /\ dec_ref_calls(heap, id).heap = dec_ref(heap, id).heap
            /\ dec_ref_calls(heap, id).panic = dec_ref(heap, id).panic
            /\ \A c \in Ids :
                   (/\ c # id /\ CallerDropsLast(id) /\ LastReference(c)
                    /\ HasData(heap, id) /\ slot(heap, id).data.kind = "List"
                    /\ slot(heap, id).data.items = <<Ref(c)>>) =>
                       dec_ref_calls(heap, id).depth = 1 + dec_ref_calls(heap, c).depth

\* The payload of id is out: a helper holds it.
PayloadOut(id) == IsSome(heap, id) /\ slot(heap, id).data.kind = "Taken"

\* The helpers that take refuse a payload that is out, with the panic `data
\* already borrowed`, and leave the heap as it is; the refcount calls work.
TakersPanic(id) ==
    /\ with_entry_mut_take(heap, id).panic = Panic("with_entry_mut", "data already borrowed")
    /\ with_entry_mut_take(heap, id).heap = heap
    /\ call_attr_take(heap, id).panic = Panic("call_attr", "data already borrowed")
    /\ call_attr_take(heap, id).heap = heap
    /\ with_two_take(heap, id, id).panic = Panic("with_two", "data already borrowed")
    /\ with_two_take(heap, id, id).heap = heap
    /\ \A other \in Ids \ {id} :
           /\ with_two_take(heap, id, other).panic
                  = Panic("with_two (left)", "data already borrowed")
           /\ with_two_take(heap, id, other).heap = heap
           /\ HasData(heap, other) =>
                  with_two_take(heap, other, id).panic
                      = Panic("with_two (right)", "data already borrowed")
    /\ \A dest \in {<<>>, <<NoneValue>>} :
           /\ iadd_extend_list(heap, id, dest).panic
                  = Panic("iadd_extend_list", "data already borrowed")
           /\ iadd_extend_list(heap, id, dest).heap = heap
           /\ iadd_extend_list(heap, id, dest).dest = dest
    /\ inc_ref(heap, id).panic = ""
    /\ slot(inc_ref(heap, id).heap, id).refcount = slot(heap, id).refcount + 1
    /\ get_refcount(heap, id).panic = ""
    /\ get_refcount(heap, id).refcount = slot(heap, id).refcount
    /\ dec_ref(heap, id).panic = ""
    /\ slot(heap, id).refcount > 1 =>
           slot(dec_ref(heap, id).heap, id).refcount = slot(heap, id).refcount - 1

\* A first get_or_compute_hash (hash_state Unknown) on a payload that is out
\* panics with the message what and leaves the heap as it is.
FirstHashPanics(id, what) ==
    slot(heap, id).hash_state = Unknown =>
        /\ get_or_compute_hash(heap, id).panic = Panic("get_or_compute_hash", what)
        /\ get_or_compute_hash(heap, id).heap = heap
        /\ ~get_or_compute_hash(heap, id).hash.some

\* C34 as stated: every attempt to take a payload that is already taken
\* (with_entry_mut, with_two, call_attr, iadd_extend_list, a first-time
\* get_or_compute_hash) panics with `data already borrowed` instead of
\* handing out a second payload, while inc_ref, dec_ref and get_refcount on
\* that id still work.
C34_SecondTakeAlreadyBorrowed ==
    Running =>
        \A id \in Ids :
            PayloadOut(id) => TakersPanic(id) /\ FirstHashPanics(id, "data already borrowed")

\* C34: as above, with the message get_or_compute_hash has: `data borrowed`.
C34_SecondTakePanics ==
    Running =>
        \A id \in Ids : PayloadOut(id) => TakersPanic(id) /\ FirstHashPanics(id, "data borrowed")

\* A callback asked for the hash of the string it was borrowing, which had
\* never been hashed, and the run ended with the panic.
C34_Witness == halt = Panic("get_or_compute_hash", "data borrowed")

\* C35: call_attr puts the payload back into slot id before it returns,
\* when py_call_attr returned a value and when it returned an error, and
\* returns that result; after the call the entry is read through get with
\* the payload as py_call_attr left it.
C35_CallAttrRestores ==
    [][(frames # <<>> /\ Top.op = "call_attr" /\ Len(frames') < Len(frames) /\ halt' = "") =>
           /\ heap' = SetSlot(heap, Top.left, [slot(heap, Top.left) EXCEPT !.data = Top.args[1]])
           /\ get(heap', Top.left, "get") = [data |-> Top.args[1], panic |-> ""]
           /\ ret'.op = "call_attr" /\ ret'.id = Top.left /\ ret'.res \in Results
           /\ frames' = SubSeq(frames, 1, Len(frames) - 1)
      ]_vars

\* call_attr has returned the error of py_call_attr and the entry, a list
\* the caller holds, is read through get.
C35_Witness ==
    /\ ret.op = "call_attr" /\ ret.res = "Err"
    /\ roots[ret.id] > 0
    /\ get(heap, ret.id, "get").panic = ""
    /\ get(heap, ret.id, "get").data.kind = "List"

\* Whether a Value can be hashed, read off the payloads alone: an immediate,
\* a Str and a Bytes can, a List and a Dict cannot, a Tuple can when all its
\* elements can.
RECURSIVE Hashable(_, _, _)
Hashable(h, v, fuel) ==
    IF ~IsRef(v) THEN TRUE
    ELSE /\ fuel > 0
         /\ HasData(h, v.id)
         /\ LET data == slot(h, v.id).data IN
            CASE data.kind \in {"Str", "Bytes"} -> TRUE
              [] data.kind = "Tuple" ->
                   \A i \in 1 .. Len(data.items) : Hashable(h, data.items[i], fuel - 1)
              [] OTHER -> FALSE

\* The hashes the elements answer with, in order.
ElementHashes(h, items) == [i \in 1 .. Len(items) |-> py_hash_u64(items[i], h).hash.v]

TupleHashed(id, r) ==
    LET items == slot(heap, id).data.items IN
    r.panic = "" =>
        /\ r.hash.some <=> \A i \in 1 .. Len(items) : Hashable(heap, items[i], MaxSlots + 1)
        /\ ~r.hash.some => slot(r.heap, id).hash_state = Unhashable
        /\ r.hash.some =>
               /\ r.hash.v = hasher_write_all(hasher_new, ElementHashes(r.heap, items))
               /\ slot(r.heap, id).hash_state = Cached(r.hash.v)
        /\ slot(r.heap, id).data = slot(heap, id).data
        /\ slot(r.heap, id).refcount = slot(heap, id).refcount

\* C36: get_or_compute_hash on a Tuple returns None exactly when an element,
\* directly or through nested tuples, is unhashable, and the tuple's
\* hash_state is then Unhashable; otherwise it returns Some(h) with h the
\* digest of the element hashes in order; the tuple's payload and refcount
\* are as before the call.
C36_TupleHash ==
    \A id \in Ids :
        (HasData(heap, id) /\ slot(heap, id).data.kind = "Tuple") =>
            TupleHashed(id, get_or_compute_hash(heap, id))

\* get_or_compute_hash has returned None for a tuple whose only unhashable
\* element is a list inside a nested tuple.
C36_Witness ==
    /\ ret.op = "get_or_compute_hash" /\ ~ret.hash.some
    /\ HasData(heap, ret.id)
    /\ slot(heap, ret.id).hash_state = Unhashable
    /\ \E inner \in Ids, list \in Ids :
           /\ slot(heap, ret.id).data = Tuple(<<NoneValue, Ref(inner)>>)
           /\ HasData(heap, inner) /\ slot(heap, inner).data = Tuple(<<Ref(list)>>)
           /\ HasData(heap, list) /\ slot(heap, list).data.kind = "List"

\* No refcount of heaps[i] differs from h before the source payload is back.
RestoredBeforeIncRef(h, source_id, heaps) ==
    \A i \in 1 .. Len(heaps) :
        (\E id \in Ids : IsSome(h, id) /\ slot(heaps[i], id).refcount # slot(h, id).refcount) =>
            slot(heaps[i], source_id).data = slot(h, source_id).data

\* What a call with a List source leaves: refcounts raised per occurrence,
\* nothing else in the heap changed, the items appended in order.
ExtendedFromList(source_id, dest, r) ==
    LET items == slot(heap, source_id).data.items IN
    /\ r.panic = "" /\ r.success
    /\ r.dest = dest \o items
    /\ r.heap.free_list = heap.free_list
    /\ Len(r.heap.entries) = Len(heap.entries)
    /\ \A id \in Ids :
           InRange(heap, id) =>
               slot(r.heap, id) =
                   [slot(heap, id) EXCEPT !.refcount = @ + (IF slot(heap, id).some
                                                           THEN CountIn(items, id) ELSE 0)]
    /\ \A i \in 1 .. Len(items) : IsRef(items[i]) => IsSome(heap, items[i].id)

\* The payload is back before any refcount moves, and the last step leaves
\* the heap the call returns with.
StepsOfExtend(source_id, heaps) ==
    /\ RestoredBeforeIncRef(heap, source_id, heaps)
    /\ Last(heaps) = iadd_extend_list(heap, source_id, <<>>).heap

Extended(source_id, dest, r) ==
    IF slot(heap, source_id).data.kind = "List"
    THEN ExtendedFromList(source_id, dest, r)
    ELSE r = [heap |-> heap, dest |-> dest, success |-> FALSE, panic |-> ""]

\* C37: iadd_extend_list with a List source puts the source payload back
\* before any inc_ref, raises the refcount of each entry the source refers to
\* by the number of times the source holds it, appends the source's items to
\* dest in order, leaves the source payload as it was and returns true; with
\* any other source it returns false and leaves heap and dest as they were.
C37_IaddExtendList ==
    \A source_id \in Ids :
        HasData(heap, source_id) =>
            /\ StepsOfExtend(source_id, iadd_extend_list_heaps(heap, source_id))
            /\ \A dest \in {<<>>, <<Ref(0), NoneValue>>} :
                   Extended(source_id, dest, iadd_extend_list(heap, source_id, dest))

\* Inside with_entry_mut on a list the caller holds, an extend from a list
\* that refers to that list has run: the copy is in the payload handed to f
\* and the refcount stands above what cloning alone reaches.
C37_Witness ==
    /\ frames # <<>>
    /\ Top.op = "with_entry_mut"
    /\ Top.args[1] = List(<<Ref(Top.left)>>)
    /\ slot(heap, Top.left).refcount = MaxRefcount + 1
    /\ \E source_id \in Ids :
           /\ HasData(heap, source_id)
           /\ slot(heap, source_id).data = List(<<Ref(Top.left)>>)

\* A list whose payload, in its slot, holds one Ref to the list itself.
SelfHeld(h, id) ==
    /\ HasData(h, id)
    /\ slot(h, id).data.kind = "List"
    /\ CountIn(slot(h, id).data.items, id) = 1

\* The caller holds the one Ref(id) that is not in the list itself.
LastExternal(id) ==
    /\ SelfHeld(heap, id)
    /\ roots[id] = 1
    /\ LiveCopies(id) = 2

\* dec_ref(id) lowers the refcount to 1 in one invocation and changes
\* nothing else: no slot is freed.
KeptByItself(id, r) ==
    /\ r.panic = "" /\ r.depth = 1
    /\ r.heap = SetSlot(heap, id, [slot(heap, id) EXCEPT !.refcount = 1])
    /\ entry_count(r.heap) = entry_count(heap)
    /\ dec_ref(heap, id) = [heap |-> r.heap, panic |-> ""]

\* C38: a list that holds a Ref to itself is not freed by dropping its
\* external references: the dec_ref of the last one returns after one
\* invocation, without a panic, with the slot occupied at refcount 1 and no
\* slot freed, and whatever is dropped afterwards the slot stays occupied
\* for the rest of the run.
C38_SelfReferenceLeaks ==
    [][\A id \in Ids :
           /\ LastExternal(id) => KeptByItself(id, dec_ref_calls(heap, id))
           /\ (SelfHeld(heap, id) /\ halt' = "" /\ heap' # clear(heap)) =>
                  /\ IsSome(heap', id)
                  /\ slot(heap', id).refcount >= 1
                  /\ (roots'[id] = 0 /\ LiveCopies(id)' = 1) => slot(heap', id).refcount = 1
      ]_vars

\* A list held by nothing but itself after the list that referred to it was
\* freed: refcount 1, no caller holds it, its slot is occupied.
C38_Witness ==
    /\ Running
    /\ heap.free_list # <<>>
    /\ \E id \in Ids :
           /\ SelfHeld(heap, id)
           /\ slot(heap, id).data = List(<<Ref(id)>>)
           /\ slot(heap, id).refcount = 1
           /\ roots[id] = 0
           /\ LiveCopies(id) = 1
           /\ entry_count(heap) = 1

\* The free list names the empty slots, each once.
FreeListWellFormed(h) ==
    /\ NoRepeats(h.free_list)
    /\ \A i \in 1 .. Len(h.free_list) :
           InRange(h, h.free_list[i]) /\ ~slot(h, h.free_list[i]).some
    /\ \A id \in Ids :
           (InRange(h, id) /\ ~slot(h, id).some) =>
               \E i \in 1 .. Len(h.free_list) : h.free_list[i] = id

\* allocate puts the new entry in a slot that held none and leaves every
\* live entry as it was.
AllocateSparesLive(h, a) ==
    /\ ~IsSome(h, a.id)
    /\ IsSome(a.heap, a.id)
    /\ \A id \in Ids : IsSome(h, id) => slot(a.heap, id) = slot(h, id)
    /\ FreeListWellFormed(a.heap)

\* C39: in every reachable state the free list holds no id twice, every id
\* in it is below the length of entries and names an empty slot, and every
\* empty slot is in it; so allocate never overwrites a live entry and
\* entry_count() is the length of entries less the length of the free list.
C39_FreeListWellFormed ==
    /\ FreeListWellFormed(heap)
    /\ AllocateSparesLive(heap, allocate(heap, Str(<<>>)))
    /\ entry_count(heap) = Len(heap.entries) - Len(heap.free_list)

\* allocate has reused one of two freed slots: the other is still on the
\* free list, next to the live entry.
C39_Witness ==
    /\ ret.op = "allocate"
    /\ IsSome(heap, ret.id)
    /\ Len(heap.entries) = MaxSlots
    /\ Len(heap.free_list) = MaxSlots - 1
    /\ entry_count(heap) = 1

\* The panics of a restore_data! that finds the slot empty.
AlreadyFreedPanics ==
    {Panic(func, "object already freed") :
        func \in {"with_entry_mut", "call_attr", "with_two", "with_two (left)", "with_two (right)"}}

\* The ids whose payloads the innermost helper holds, and the payload it
\* holds for id.
HeldIds == {Top.left, Top.right}
HeldPayload(id) == IF id = Top.left THEN Top.args[1] ELSE Top.args[2]

\* The slot lost its entry since the helper took the payload: it is empty,
\* or an allocation has put an entry with a payload of its own there.
FreedSinceTake(id) == ~IsSome(heap, id) \/ HasData(heap, id)

\* A callback drops the last reference to an entry whose payload is out:
\* the slot is emptied and pushed on the free list and nothing else in the
\* heap moves, the children of the taken payload included.
FreedWithoutChildren ==
    \A id \in Ids :
        (/\ frames # <<>> /\ frames' = frames /\ halt' = ""
         /\ id \in HeldIds
         /\ IsSome(heap, id) /\ ~HasData(heap, id) /\ slot(heap, id).refcount = 1
         /\ roots'[id] = roots[id] - 1
         /\ ~IsSome(heap', id)) =>
            heap' = [entries |-> [heap.entries EXCEPT ![id + 1] = NoneSlot],
                     free_list |-> Append(heap.free_list, id)]

\* The panics of what a callback calls: they end the run inside f.
CallbackPanics ==
    {Panic(func, what) : func \in {"inc_ref", "dec_ref"},
                         what \in {"slot missing", "object already freed"}}

\* The step is the restore of the innermost helper: f has returned, and the
\* helper returns or panics.
Restores == frames # <<>> /\ Len(frames') < Len(frames) /\ halt' \notin CallbackPanics

\* C40: when dec_ref lowers the refcount of a slot from 1 to 0 while
\* with_entry_mut, call_attr or with_two holds its payload, the slot is
\* emptied and pushed on the free list without a dec_ref of the children in
\* the taken payload, and the restore step of the helper panics with
\* 'object already freed': the taken payload is not written into a slot
\* that was freed or handed to another allocation.
C40_FreedWhileHeld ==
    [][/\ FreedWithoutChildren
       /\ (Restores /\ \E id \in HeldIds : FreedSinceTake(id)) => halt' \in AlreadyFreedPanics
      ]_vars

\* What restore_data! does with a slot freed since the take: it panics when
\* the slot is still empty, and when an allocation has filled the slot again
\* it writes the taken payload over the payload of the new entry and the
\* helper returns.
C40_RestoreIntoReusedSlot ==
    [][/\ FreedWithoutChildren
       /\ Restores =>
              IF \E id \in HeldIds : ~IsSome(heap, id)
              THEN halt' \in AlreadyFreedPanics
              ELSE /\ halt' = ""
                   /\ \A id \in HeldIds :
                          slot(heap', id) = [slot(heap, id) EXCEPT !.data = HeldPayload(id)]
      ]_vars

\* with_entry_mut has returned after writing the list it took over the
\* string a callback allocated in the freed slot.
C40_Witness ==
    /\ ret.op = "with_entry_mut"
    /\ HasData(heap, ret.id)
    /\ slot(heap, ret.id).data.kind = "List"
    /\ slot(heap, ret.id).hash_state = Unknown

====
